---- MODULE Spec2Model ----
(***************************************************************************)
(* Model of the file manager's use-case layer (internal/usecases) over its *)
(* storage collaborator (domain.FileStorage).                              *)
(*                                                                         *)
(* A path is a sequence of one-character strings.  The path alphabet has   *)
(* the separator "/", the dot ".", one character the name pattern accepts  *)
(* ("s") and one it rejects ("<").                                         *)
(***************************************************************************)
EXTENDS Integers, Sequences, FiniteSets, TLC

VARIABLES basePath, pc, op, args, stor, calls, err, ret, files, resp,
          fs, pre, sys, sink, archive, status, conc

vars == <<basePath, pc, op, args, stor, calls, err, ret, files, resp,
          fs, pre, sys, sink, archive, status, conc>>

----------------------------------------------------------------------------
(* Bounds of the model *)

\* cfg.File.MaxNameLength, scaled down
MaxNameLength == 4

\* longest raw path handed to sanitizePath alone
MaxRawLen == 6

\* longest raw path handed to an Engine operation
MaxOpLen == 4

\* longest raw path in each argument of Rename
MaxRenameLen == 2

\* most entries a directory listing returns
MaxEntries == 2

\* most wrappers around the error handed to handleError
MaxWrap == 2

\* the bytes of multipart framing around an uploaded file, at most
MaxExtra == 1

\* the chunks io.Copy writes an uploaded stream in, one byte each
MaxChunks == 2

----------------------------------------------------------------------------
(* domain constants *)

PathEmpty == <<>>
PathCurrent == <<".">>
PathRoot == <<"/">>
PathTraversalPrefix == <<".", ".">>
HiddenFilePrefix == <<".">>
Separator == "/"

PathChars == {"/", ".", "s", "<"}

\* the characters the pattern ^[\w\-. ]+$ accepts, among PathChars and the
\* upper-case letter of the handler's file names
ValidNameChars == {"s", "S", "."}

SeqsUpTo(S, n) == UNION {[1..k -> S] : k \in 0..n}

RawPaths == SeqsUpTo(PathChars, MaxRawLen)

\* a path one character longer than MaxNameLength that passes every other check
LongPath == [i \in 1..(MaxNameLength + 1) |-> "s"]

OpPaths == SeqsUpTo(PathChars, MaxOpLen) \cup {LongPath}

RenamePaths == SeqsUpTo(PathChars, MaxRenameLen) \cup {LongPath}

\* cfg.Storage.BasePath after filepath.Abs
BasePaths == {<<"/", "s">>, <<"/", "s", "/", "s">>}

----------------------------------------------------------------------------
(* path/filepath and strings, on a Unix build *)

HasPrefix(s, prefix) ==
    /\ Len(s) >= Len(prefix)
    /\ SubSeq(s, 1, Len(prefix)) = prefix

IsAbs(p) == HasPrefix(p, <<Separator>>)

RECURSIVE SplitFrom(_, _, _, _)
SplitFrom(p, i, cur, acc) ==
    IF i > Len(p) THEN Append(acc, cur)
    ELSE IF p[i] = Separator THEN SplitFrom(p, i + 1, <<>>, Append(acc, cur))
    ELSE SplitFrom(p, i + 1, Append(cur, p[i]), acc)

\* strings.Split(p, "/")
Split(p) == SplitFrom(p, 1, <<>>, <<>>)

RECURSIVE JoinSegs(_)
\* strings.Join(segs, "/")
JoinSegs(segs) ==
    IF segs = <<>> THEN <<>>
    ELSE IF Len(segs) = 1 THEN segs[1]
    ELSE segs[1] \o <<Separator>> \o JoinSegs(Tail(segs))

DotDot == <<".", ".">>

RECURSIVE CleanFold(_, _, _, _)
\* the element loop of filepath.Clean: out is the output built so far
CleanFold(segs, i, out, rooted) ==
    IF i > Len(segs) THEN out
    ELSE LET e == segs[i] IN
         IF e = <<>> \/ e = <<".">> THEN CleanFold(segs, i + 1, out, rooted)
         ELSE IF e = DotDot THEN
              IF out # <<>> /\ out[Len(out)] # DotDot
                THEN CleanFold(segs, i + 1, SubSeq(out, 1, Len(out) - 1), rooted)
              ELSE IF rooted THEN CleanFold(segs, i + 1, out, rooted)
              ELSE CleanFold(segs, i + 1, Append(out, e), rooted)
         ELSE CleanFold(segs, i + 1, Append(out, e), rooted)

\* filepath.Clean
Clean(p) ==
    IF p = <<>> THEN <<".">>
    ELSE LET rooted == IsAbs(p)
             out == CleanFold(Split(p), 1, <<>>, rooted)
         IN IF rooted THEN <<Separator>> \o JoinSegs(out)
            ELSE IF out = <<>> THEN <<".">>
            ELSE JoinSegs(out)

\* filepath.Join(a, b)
Join(a, b) ==
    IF a # <<>> THEN Clean(a \o <<Separator>> \o b)
    ELSE IF b # <<>> THEN Clean(b)
    ELSE <<>>

\* the elements of a cleaned path
Elems(p) == SelectSeq(Split(p), LAMBDA e : e # <<>>)

RECURSIVE CommonLen(_, _, _)
CommonLen(a, b, k) ==
    IF k < Len(a) /\ k < Len(b) /\ a[k + 1] = b[k + 1]
      THEN CommonLen(a, b, k + 1)
      ELSE k

\* filepath.Rel(basepath, targpath): [failed, path]
Rel(basepath, targpath) ==
    LET base0 == Clean(basepath)
        targ == Clean(targpath)
        base == IF base0 = <<".">> THEN <<>> ELSE base0
    IN IF targ = base0 THEN [failed |-> FALSE, path |-> <<".">>]
       ELSE IF IsAbs(base) # IsAbs(targ) THEN [failed |-> TRUE, path |-> <<>>]
       ELSE LET b == Elems(base)
                t == Elems(targ)
                k == CommonLen(b, t, 0)
                up == [i \in 1..(Len(b) - k) |-> DotDot]
                rest == SubSeq(t, k + 1, Len(t))
            IN IF k < Len(b) /\ b[k + 1] = DotDot
                 THEN [failed |-> TRUE, path |-> <<>>]
                 ELSE [failed |-> FALSE, path |-> JoinSegs(up \o rest)]

RECURSIVE StripTrailing(_)
StripTrailing(p) ==
    IF p # <<>> /\ p[Len(p)] = Separator
      THEN StripTrailing(SubSeq(p, 1, Len(p) - 1))
      ELSE p

\* filepath.Base
Base(p) ==
    IF p = <<>> THEN <<".">>
    ELSE LET q == StripTrailing(p)
             segs == Split(q)
             last == segs[Len(segs)]
         IN IF last = <<>> THEN <<Separator>> ELSE last

----------------------------------------------------------------------------
(* errors: an error is the chain of its wrappers, outermost first; nil is  *)
(* the empty chain                                                         *)

NoError == <<>>

ErrPathTraversal == <<"ErrPathTraversal">>
ErrPathTooLong == <<"ErrPathTooLong">>
ErrInvalidName == <<"ErrInvalidName">>
ErrFileNotFound == <<"ErrFileNotFound">>
ErrPermissionDenied == <<"ErrPermissionDenied">>
ErrUnsupportedOperation == <<"ErrUnsupportedOperation">>

\* fmt.Errorf(msg + ": %w", e)
Errorf(msg, e) == <<msg>> \o e

\* errors.Is(e, target) for a sentinel target
ErrorsIs(e, target) == \E i \in 1..Len(e) : e[i] = target[1]

----------------------------------------------------------------------------
(* the storage collaborator's path resolution *)

\* LocalStorageService.GetAbsolutePath
GetAbsolutePath(base, relPath) == Join(base, relPath)

----------------------------------------------------------------------------
(* FileManagementUseCase.sanitizePath *)

\* uc.validName.MatchString(name) for ^[\w\-. ]+$
MatchString(name) ==
    /\ Len(name) >= 1
    /\ \A i \in 1..Len(name) : name[i] \in ValidNameChars

\* the call sanitizePath makes to read the base directory
BaseCall == [fn |-> "GetAbsolutePath", args |-> <<PathEmpty>>, data |-> <<>>]

SanErr(e, cs) == [path |-> <<>>, err |-> e, calls |-> cs]

\* sanitizeBase matching the pattern against the whole path
sanitizeBase_wholePath(clean, base1) ==
    IF clean # PathCurrent /\ clean # PathEmpty /\ ~MatchString(clean)
      THEN SanErr(Errorf("base name is invalid", ErrInvalidName), <<BaseCall>>)
      ELSE [path |-> clean, err |-> NoError, calls |-> <<BaseCall>>]

\* lines 63-69: the name check on the last element, and the result
sanitizeBase(clean, base1) ==
    IF base1 # PathCurrent /\ base1 # PathEmpty /\ ~MatchString(base1)
      THEN SanErr(Errorf("base name is invalid", ErrInvalidName), <<BaseCall>>)
      ELSE [path |-> clean, err |-> NoError, calls |-> <<BaseCall>>]

\* sanitizeRel without the test of rel against PathTraversalPrefix
sanitizeRel_noTraversal(clean, rel) ==
    IF rel.failed
      THEN SanErr(Errorf("path resolution failed", ErrPathTraversal), <<BaseCall>>)
    ELSE IF Len(clean) > MaxNameLength
      THEN SanErr(Errorf("path too long", ErrPathTooLong), <<BaseCall>>)
    ELSE sanitizeBase(clean, Base(clean))

\* sanitizeRel checking the name before the length
sanitizeRel_nameFirst(clean, rel) ==
    IF rel.failed
      THEN SanErr(Errorf("path resolution failed", ErrPathTraversal), <<BaseCall>>)
    ELSE IF HasPrefix(rel.path, PathTraversalPrefix)
      THEN SanErr(Errorf("path traversal detected", ErrPathTraversal), <<BaseCall>>)
    ELSE IF sanitizeBase(clean, Base(clean)).err # NoError
      THEN sanitizeBase(clean, Base(clean))
    ELSE IF Len(clean) > MaxNameLength
      THEN SanErr(Errorf("path too long", ErrPathTooLong), <<BaseCall>>)
    ELSE sanitizeBase(clean, Base(clean))

\* sanitizeRel with >= for > in the length check
sanitizeRel_offByOne(clean, rel) ==
    IF rel.failed
      THEN SanErr(Errorf("path resolution failed", ErrPathTraversal), <<BaseCall>>)
    ELSE IF HasPrefix(rel.path, PathTraversalPrefix)
      THEN SanErr(Errorf("path traversal detected", ErrPathTraversal), <<BaseCall>>)
    ELSE IF Len(clean) >= MaxNameLength
      THEN SanErr(Errorf("path too long", ErrPathTooLong), <<BaseCall>>)
    ELSE sanitizeBase(clean, Base(clean))

\* lines 49-61: the confinement check on rel, then the length check
sanitizeRel(clean, rel) ==
    IF rel.failed
      THEN SanErr(Errorf("path resolution failed", ErrPathTraversal), <<BaseCall>>)
    ELSE IF HasPrefix(rel.path, PathTraversalPrefix)
      THEN SanErr(Errorf("path traversal detected", ErrPathTraversal), <<BaseCall>>)
    ELSE IF Len(clean) > MaxNameLength
      THEN SanErr(Errorf("path too long", ErrPathTooLong), <<BaseCall>>)
    ELSE sanitizeBase(clean, Base(clean))

\* lines 46-49: rel, the path from the base directory to the target
sanitizeFull(clean, basePathC) ==
    sanitizeRel(clean, Rel(basePathC, Join(basePathC, clean)))

\* lines 40-46: the absolute-path check on the cleaned path
sanitizeClean(base, clean) ==
    IF IsAbs(clean)
      THEN SanErr(Errorf("absolute paths are not allowed", ErrPathTraversal), <<>>)
      ELSE sanitizeFull(clean, Clean(GetAbsolutePath(base, PathEmpty)))

\* sanitizePath returning the raw path instead of the cleaned one
sanitizePath_returnsRaw(base, path) ==
    [path |-> IF sanitizeClean(base, Clean(path)).err = NoError THEN path ELSE <<>>,
     err |-> sanitizeClean(base, Clean(path)).err,
     calls |-> sanitizeClean(base, Clean(path)).calls]

sanitizePath(base, path) == sanitizeClean(base, Clean(path))

----------------------------------------------------------------------------
(* what the storage collaborator and the OS can answer *)

\* errors of the os package: a sentinel, or an errno inside a *PathError or
\* *LinkError
OsErrors ==
    { <<"ErrNotExist">>, <<"ErrPermission">>, <<"ErrInvalid">>,
      <<"PathError", "ENOENT">>, <<"PathError", "EACCES">>,
      <<"PathError", "ENOTDIR">>, <<"LinkError", "ENOENT">> }

\* os.underlyingError
underlyingError(e) ==
    IF e[1] \in {"PathError", "LinkError", "SyscallError"} THEN Tail(e) ELSE e

\* os.IsNotExist
IsNotExist(e) ==
    e # NoError /\ underlyingError(e)[1] \in {"ErrNotExist", "ENOENT"}

\* os.IsPermission
IsPermission(e) ==
    e # NoError /\ underlyingError(e)[1] \in {"ErrPermission", "EACCES", "EPERM"}

\* os.FileInfo values of directory entries
EntryNames == {<<"s">>, <<".", "s">>}

FileInfos == [name : EntryNames, isDir : BOOLEAN]

\* what ReadDirectory returns
ReadDirReturns ==
    {[err |-> NoError, entries |-> es] : es \in SeqsUpTo(FileInfos, MaxEntries)}
    \cup {[err |-> e, entries |-> <<>>] : e \in OsErrors}

\* what WriteFile, Remove, Move and CreateDirectory return
StorageReturns == {NoError} \cup OsErrors

\* what os.Stat returns
StatReturns ==
    {[err |-> NoError, isDir |-> d] : d \in BOOLEAN}
    \cup {[err |-> e, isDir |-> FALSE] : e \in OsErrors}

\* the byte streams of an upload
Streams == {<<>>, <<1>>}

NoStor == [kind |-> "none"]

----------------------------------------------------------------------------
(* the Engine operations: each gives the storage calls it issues, in       *)
(* order, and what it returns                                              *)

NilFiles == [isNil |-> TRUE, items |-> <<>>]

NoResp == [headers |-> <<>>, served |-> <<>>, zip |-> "none"]

\* a storage call: its relative path arguments and, for WriteFile, its stream
Call(f, a) == [fn |-> f, args |-> a, data |-> <<>>]

WriteCall(path, data) == [fn |-> "WriteFile", args |-> <<path>>, data |-> data]

Result(cs, e, fl, rs, st) ==
    [calls |-> cs, err |-> e, files |-> fl, resp |-> rs, stor |-> st]

SanFailed(s) == Result(s.calls, s.err, NilFiles, NoResp, NoStor)

RECURSIVE FileDataOf_reversed(_, _, _)
\* the loop of List prepending instead of appending
FileDataOf_reversed(entries, i, acc) ==
    IF i > Len(entries) THEN acc
    ELSE FileDataOf_reversed(entries, i + 1,
           <<[Name |-> entries[i].name, IsDir |-> entries[i].isDir]>> \o acc)

\* the loop of List building []domain.FileData
RECURSIVE FileDataOf(_, _, _)
FileDataOf(entries, i, acc) ==
    IF i > Len(entries) THEN acc
    ELSE FileDataOf(entries, i + 1,
                    Append(acc, [Name |-> entries[i].name, IsDir |-> entries[i].isDir]))

\* ListRead without the os.IsPermission branch
ListRead_noPermission(cs, st, rd) ==
    IF rd.err # NoError THEN
      IF IsNotExist(rd.err)
        THEN Result(cs, Errorf("could not read directory", ErrFileNotFound),
                    NilFiles, NoResp, st)
      ELSE Result(cs, Errorf("failed to list path", rd.err), NilFiles, NoResp, st)
    ELSE Result(cs, NoError,
                [isNil |-> FALSE, items |-> FileDataOf(rd.entries, 1, <<>>)],
                NoResp, st)

\* List once the path is sanitized and ReadDirectory has answered rd
ListRead(cs, st, rd) ==
    IF rd.err # NoError THEN
      IF IsNotExist(rd.err)
        THEN Result(cs, Errorf("could not read directory", ErrFileNotFound),
                    NilFiles, NoResp, st)
      ELSE IF IsPermission(rd.err)
        THEN Result(cs, Errorf("could not read directory", ErrPermissionDenied),
                    NilFiles, NoResp, st)
      ELSE Result(cs, Errorf("failed to list path", rd.err), NilFiles, NoResp, st)
    ELSE Result(cs, NoError,
                [isNil |-> FALSE, items |-> FileDataOf(rd.entries, 1, <<>>)],
                NoResp, st)

ListSanitized(s, rd) ==
    IF s.err # NoError THEN SanFailed(s)
    ELSE ListRead(Append(s.calls, Call("ReadDirectory", <<s.path>>)),
                  [kind |-> "ReadDirectory", ret |-> rd], rd)

List(base, path, rd) == ListSanitized(sanitizePath(base, path), rd)

\* the tail of UploadFile, Delete, Rename and CreateFolder: the storage call
\* answered e, wrapped with the operation's message when it failed
StorageDone(cs, st, msg, e) ==
    IF e # NoError
      THEN Result(cs, Errorf(msg, e), NilFiles, NoResp, st)
      ELSE Result(cs, NoError, NilFiles, NoResp, st)

\* UploadFile calling WriteFile a second time
UploadFileSanitized_twice(s, data, wr) ==
    IF s.err # NoError THEN SanFailed(s)
    ELSE StorageDone(s.calls \o <<WriteCall(s.path, data), WriteCall(s.path, data)>>,
                     [kind |-> "WriteFile", ret |-> wr],
                     "failed to upload file", wr)

UploadFileSanitized(s, data, wr) ==
    IF s.err # NoError THEN SanFailed(s)
    ELSE StorageDone(Append(s.calls, WriteCall(s.path, data)),
                     [kind |-> "WriteFile", ret |-> wr],
                     "failed to upload file", wr)

UploadFile(base, path, data, wr) ==
    UploadFileSanitized(sanitizePath(base, path), data, wr)

DeleteSanitized(s, rm) ==
    IF s.err # NoError THEN SanFailed(s)
    ELSE StorageDone(Append(s.calls, Call("Remove", <<s.path>>)),
                     [kind |-> "Remove", ret |-> rm],
                     "could not delete file/folder", rm)

Delete(base, path, rm) == DeleteSanitized(sanitizePath(base, path), rm)

\* Rename dropping the error of the second sanitizePath
RenameSanitized_ignoresNew(so, sn, mv) ==
    IF so.err # NoError THEN SanFailed(so)
    ELSE StorageDone(Append(so.calls \o sn.calls, Call("Move", <<so.path, sn.path>>)),
                     [kind |-> "Move", ret |-> mv],
                     "could not rename", mv)

\* so and sn are what sanitizePath returns for oldPath and newPath; newPath
\* is only sanitized when oldPath passed
RenameSanitized(so, sn, mv) ==
    IF so.err # NoError THEN SanFailed(so)
    ELSE IF sn.err # NoError
      THEN Result(so.calls \o sn.calls, sn.err, NilFiles, NoResp, NoStor)
    ELSE StorageDone(Append(so.calls \o sn.calls, Call("Move", <<so.path, sn.path>>)),
                     [kind |-> "Move", ret |-> mv],
                     "could not rename", mv)

Rename(base, oldPath, newPath, mv) ==
    RenameSanitized(sanitizePath(base, oldPath), sanitizePath(base, newPath), mv)

CreateFolderSanitized(s, mk) ==
    IF s.err # NoError THEN SanFailed(s)
    ELSE StorageDone(Append(s.calls, Call("CreateDirectory", <<s.path>>)),
                     [kind |-> "CreateDirectory", ret |-> mk],
                     "could not create folder", mk)

CreateFolder(base, path, mk) == CreateFolderSanitized(sanitizePath(base, path), mk)

RECURSIVE ExtFrom(_, _)
ExtFrom(p, i) ==
    IF i < 1 \/ p[i] = Separator THEN <<>>
    ELSE IF p[i] = "." THEN SubSeq(p, i, Len(p))
    ELSE ExtFrom(p, i - 1)

\* filepath.Ext
Ext(p) == ExtFrom(p, Len(p))

\* mime.TypeByExtension: no extension over PathChars is in its table
TypeByExtension(ext) == PathEmpty

MIMEOctetStream == "application/octet-stream"
MIMEZip == "application/zip"
ExtensionZip == <<".", "z", "i", "p">>

\* the Content-Type ServeFile sets for fullPath
MimeOf(ext) ==
    IF TypeByExtension(ext) = PathEmpty THEN MIMEOctetStream ELSE TypeByExtension(ext)

\* ServeFileStat answering FileNotFound for every stat error
ServeFileStat_allNotFound(cs, fullPath, stat) ==
    IF stat.err # NoError
      THEN Result(cs, Errorf("file not found", ErrFileNotFound), NilFiles, NoResp,
                  [kind |-> "Stat", ret |-> stat])
    ELSE Result(cs, NoError, NilFiles,
                [headers |-> << <<"Content-Type", MimeOf(Ext(fullPath))>>,
                                <<"Content-Disposition", Base(fullPath)>> >>,
                 served |-> fullPath,
                 zip |-> "none"],
                [kind |-> "Stat", ret |-> stat])

\* ServeFile once the path is resolved to fullPath and os.Stat has answered
ServeFileStat(cs, fullPath, stat) ==
    IF stat.err # NoError THEN
      IF IsNotExist(stat.err)
        THEN Result(cs, Errorf("file not found", ErrFileNotFound), NilFiles, NoResp,
                    [kind |-> "Stat", ret |-> stat])
        ELSE Result(cs, Errorf("failed to stat file", stat.err), NilFiles, NoResp,
                    [kind |-> "Stat", ret |-> stat])
    ELSE Result(cs, NoError, NilFiles,
                [headers |-> << <<"Content-Type", MimeOf(Ext(fullPath))>>,
                                <<"Content-Disposition", Base(fullPath)>> >>,
                 served |-> fullPath,
                 zip |-> "none"],
                [kind |-> "Stat", ret |-> stat])

ServeFileSanitized(base, s, stat) ==
    IF s.err # NoError THEN SanFailed(s)
    ELSE ServeFileStat(Append(s.calls, Call("GetAbsolutePath", <<s.path>>)),
                       GetAbsolutePath(base, s.path), stat)

ServeFile(base, path, stat) == ServeFileSanitized(base, sanitizePath(base, path), stat)

\* what the walk of createZipArchive returns
WalkReturns == {NoError} \cup OsErrors

\* ServeFolderStat without the test of info.IsDir(): a target that is not a
\* directory is archived as an empty folder
ServeFolderStat_ignoresIsDir(cs, fullPath, zipName, stat, walk) ==
    IF stat.err # NoError
      THEN Result(cs, Errorf("could not stat folder", ErrFileNotFound),
                  NilFiles, NoResp, [kind |-> "Stat", ret |-> stat])
    ELSE IF ~stat.isDir
      THEN Result(cs, NoError, NilFiles,
                  [headers |-> << <<"Content-Type", MIMEZip>>,
                                  <<"Content-Disposition", zipName>> >>,
                   served |-> fullPath,
                   zip |-> "closed"],
                  [kind |-> "Stat", ret |-> stat])
    ELSE Result(cs, IF walk # NoError
                      THEN Errorf("failed to create zip for folder", walk)
                      ELSE NoError,
                NilFiles,
                [headers |-> << <<"Content-Type", MIMEZip>>,
                                <<"Content-Disposition", zipName>> >>,
                 served |-> fullPath,
                 zip |-> "closed"],
                [kind |-> "Walk", ret |-> walk])

\* ServeFolderAsZip once the path is resolved and os.Stat has answered
ServeFolderStat(cs, fullPath, zipName, stat, walk) ==
    IF stat.err # NoError \/ ~stat.isDir
      THEN Result(cs, Errorf("could not stat folder", ErrFileNotFound),
                  NilFiles, NoResp, [kind |-> "Stat", ret |-> stat])
    ELSE IF walk # NoError
      THEN Result(cs, Errorf("failed to create zip for folder", walk), NilFiles,
                  [headers |-> << <<"Content-Type", MIMEZip>>,
                                  <<"Content-Disposition", zipName>> >>,
                   served |-> fullPath,
                   zip |-> "closed"],
                  [kind |-> "Walk", ret |-> walk])
    ELSE Result(cs, NoError, NilFiles,
                [headers |-> << <<"Content-Type", MIMEZip>>,
                                <<"Content-Disposition", zipName>> >>,
                 served |-> fullPath,
                 zip |-> "closed"],
                [kind |-> "Walk", ret |-> walk])

ServeFolderSanitized(base, s, stat, walk) ==
    IF s.err # NoError THEN SanFailed(s)
    ELSE ServeFolderStat(Append(s.calls, Call("GetAbsolutePath", <<s.path>>)),
                         GetAbsolutePath(base, s.path),
                         Base(s.path) \o ExtensionZip, stat, walk)

ServeFolderAsZip(base, path, stat, walk) ==
    ServeFolderSanitized(base, sanitizePath(base, path), stat, walk)

----------------------------------------------------------------------------
(* the file system under the local storage: a tree of directories and      *)
(* regular files, keyed by the elements of the absolute path               *)

DirNode == [isDir |-> TRUE, data |-> <<>>]

FileNode(d) == [isDir |-> FALSE, data |-> d]

\* the tree holding only the root directory
RootFs == [n \in {<<>>} |-> DirNode]

PathErr(errno) == <<"PathError", errno>>

LinkErr(errno) == <<"LinkError", errno>>

\* an os-level call or event on the node at
Ev(name, at) == [ev |-> name, at |-> at]

\* what an os function leaves and returns, and the calls it made
OsResult(f, e, made) ==
    [fs |-> f, err |-> e, sys |-> [i \in 1..Len(made) |-> Ev(made[i], <<>>)]]

Put(f, n, v) == [m \in DOMAIN f \cup {n} |-> IF m = n THEN v ELSE f[m]]

\* f without n and everything below it
RemoveTree(f, n) == [m \in {x \in DOMAIN f : ~HasPrefix(x, n)} |-> f[m]]

\* MoveTree leaving the tree at o in place
MoveTree_keepsOld(f, o, n) ==
    [m \in {x \in DOMAIN f : ~HasPrefix(x, n)}
           \cup {n \o SubSeq(x, Len(o) + 1, Len(x)) : x \in {y \in DOMAIN f : HasPrefix(y, o)}}
       |-> IF HasPrefix(m, n) THEN f[o \o SubSeq(m, Len(n) + 1, Len(m))] ELSE f[m]]

\* f with the tree at o moved to n, replacing what was at n
MoveTree(f, o, n) ==
    [m \in {x \in DOMAIN f : ~HasPrefix(x, o) /\ ~HasPrefix(x, n)}
           \cup {n \o SubSeq(x, Len(o) + 1, Len(x)) : x \in {y \in DOMAIN f : HasPrefix(y, o)}}
       |-> IF HasPrefix(m, n) THEN f[o \o SubSeq(m, Len(n) + 1, Len(m))] ELSE f[m]]

\* the errno of resolving the elements of n before the last
WalkErrno(f, n) ==
    IF \E k \in 0..(Len(n) - 1) :
         SubSeq(n, 1, k) \in DOMAIN f /\ ~f[SubSeq(n, 1, k)].isDir
      THEN "ENOTDIR"
    ELSE IF \E k \in 0..(Len(n) - 1) : SubSeq(n, 1, k) \notin DOMAIN f
      THEN "ENOENT"
    ELSE "ok"

\* the errno of resolving n
LookupErrno(f, n) ==
    IF WalkErrno(f, n) # "ok" THEN WalkErrno(f, n)
    ELSE IF n \notin DOMAIN f THEN "ENOENT"
    ELSE "ok"

\* os.Stat
Stat(f, p) ==
    IF LookupErrno(f, Elems(p)) # "ok"
      THEN [err |-> PathErr(LookupErrno(f, Elems(p))), isDir |-> FALSE]
      ELSE [err |-> NoError, isDir |-> f[Elems(p)].isDir]

CharCode(c) ==
    CASE c = "." -> 46 [] c = "/" -> 47 [] c = "<" -> 60 [] c = "S" -> 83 [] OTHER -> 115

RECURSIVE NameLess(_, _)
\* a < b as Go strings
NameLess(a, b) ==
    IF b = <<>> THEN FALSE
    ELSE IF a = <<>> THEN TRUE
    ELSE IF a[1] # b[1] THEN CharCode(a[1]) < CharCode(b[1])
    ELSE NameLess(Tail(a), Tail(b))

RECURSIVE SortNames(_)
\* the names of S in increasing order
SortNames(S) ==
    IF S = {} THEN <<>>
    ELSE LET least == CHOOSE a \in S : \A b \in S \ {a} : NameLess(a, b)
         IN <<least>> \o SortNames(S \ {least})

\* the names of the entries of the directory n
ChildNames(f, n) ==
    {m[Len(m)] : m \in {x \in DOMAIN f : Len(x) = Len(n) + 1 /\ HasPrefix(x, n)}}

\* the os.FileInfo values of the entries of n, sorted by name
EntriesOf(f, n, names) ==
    [i \in 1..Len(names) |-> [name |-> names[i], isDir |-> f[Append(n, names[i])].isDir]]

\* os.ReadDir
ReadDir(f, p) ==
    IF LookupErrno(f, Elems(p)) # "ok"
      THEN [err |-> PathErr(LookupErrno(f, Elems(p))), entries |-> <<>>]
    ELSE IF ~f[Elems(p)].isDir
      THEN [err |-> PathErr("ENOTDIR"), entries |-> <<>>]
    ELSE [err |-> NoError,
          entries |-> EntriesOf(f, Elems(p), SortNames(ChildNames(f, Elems(p))))]

\* f with every missing directory of n[1..k] made
MakeDirs(f, n) ==
    [m \in DOMAIN f \cup {SubSeq(n, 1, k) : k \in 0..Len(n)}
       |-> IF m \in DOMAIN f THEN f[m] ELSE DirNode]

\* os.MkdirAll
MkdirAll(f, p) ==
    IF \E k \in 0..Len(Elems(p)) :
         SubSeq(Elems(p), 1, k) \in DOMAIN f /\ ~f[SubSeq(Elems(p), 1, k)].isDir
      THEN OsResult(f, PathErr("ENOTDIR"), <<"MkdirAll">>)
      ELSE OsResult(MakeDirs(f, Elems(p)), NoError, <<"MkdirAll">>)

\* no failure while the file is written
NoWriteFault == [kind |-> "none", at |-> 0]

\* the ways the writing of n bytes can fail: os.Create is refused, or io.Copy
\* stops with a read or write error after `at` bytes
WriteFaults(n) ==
    {NoWriteFault, [kind |-> "create", at |-> 0]}
    \cup {[kind |-> "copy", at |-> k] : k \in 0..n}

\* CreateAndCopy opening the file without truncating it
CreateAndCopy_noTruncate(f, p, data, ft) ==
    IF WalkErrno(f, Elems(p)) # "ok"
      THEN OsResult(f, PathErr(WalkErrno(f, Elems(p))), <<"Create">>)
    ELSE IF Elems(p) \in DOMAIN f /\ f[Elems(p)].isDir
      THEN OsResult(f, PathErr("EISDIR"), <<"Create">>)
    ELSE IF ft.kind = "create"
      THEN OsResult(f, PathErr("EACCES"), <<"Create">>)
    ELSE IF ft.kind = "copy"
      THEN OsResult(Put(f, Elems(p), FileNode(SubSeq(data, 1, ft.at))), <<"EIO">>,
                    <<"Create", "Copy">>)
    ELSE IF Elems(p) \in DOMAIN f /\ Len(f[Elems(p)].data) > Len(data)
      THEN OsResult(Put(f, Elems(p),
                        FileNode(data \o SubSeq(f[Elems(p)].data, Len(data) + 1,
                                                Len(f[Elems(p)].data)))),
                    NoError, <<"Create", "Copy">>)
    ELSE OsResult(Put(f, Elems(p), FileNode(data)), NoError, <<"Create", "Copy">>)

\* os.Create followed by io.Copy of data
CreateAndCopy(f, p, data, ft) ==
    IF WalkErrno(f, Elems(p)) # "ok"
      THEN OsResult(f, PathErr(WalkErrno(f, Elems(p))), <<"Create">>)
    ELSE IF Elems(p) \in DOMAIN f /\ f[Elems(p)].isDir
      THEN OsResult(f, PathErr("EISDIR"), <<"Create">>)
    ELSE IF ft.kind = "create"
      THEN OsResult(f, PathErr("EACCES"), <<"Create">>)
    ELSE IF ft.kind = "copy"
      THEN OsResult(Put(f, Elems(p), FileNode(SubSeq(data, 1, ft.at))), <<"EIO">>,
                    <<"Create", "Copy">>)
    ELSE OsResult(Put(f, Elems(p), FileNode(data)), NoError, <<"Create", "Copy">>)

\* os.RemoveAll: a missing path is no error, a path below a regular file is
RemoveAll(f, p) ==
    IF WalkErrno(f, Elems(p)) = "ENOTDIR"
      THEN OsResult(f, PathErr("ENOTDIR"), <<"RemoveAll">>)
    ELSE IF Elems(p) \notin DOMAIN f
      THEN OsResult(f, NoError, <<"RemoveAll">>)
    ELSE OsResult(RemoveTree(f, Elems(p)), NoError, <<"RemoveAll">>)

\* the rename system call on the elements o and n
RenameNodes(f, o, n) ==
    IF LookupErrno(f, o) # "ok" THEN OsResult(f, LinkErr(LookupErrno(f, o)), <<"Rename">>)
    ELSE IF WalkErrno(f, n) # "ok" THEN OsResult(f, LinkErr(WalkErrno(f, n)), <<"Rename">>)
    ELSE IF o = n THEN OsResult(f, NoError, <<"Rename">>)
    ELSE IF HasPrefix(n, o) THEN OsResult(f, LinkErr("EINVAL"), <<"Rename">>)
    ELSE IF f[o].isDir /\ n \in DOMAIN f
      THEN OsResult(f, LinkErr("ENOTDIR"), <<"Rename">>)
    ELSE OsResult(MoveTree(f, o, n), NoError, <<"Rename">>)

\* os.Rename: an existing directory as the new name is refused first
OsRename(f, oldname, newname) ==
    IF Elems(newname) \in DOMAIN f /\ f[Elems(newname)].isDir THEN
      IF LookupErrno(f, Elems(oldname)) # "ok"
        THEN OsResult(f, LinkErr(LookupErrno(f, Elems(oldname))), <<"Rename">>)
        ELSE OsResult(f, LinkErr("EEXIST"), <<"Rename">>)
    ELSE RenameNodes(f, Elems(oldname), Elems(newname))

RECURSIVE DirFrom(_, _)
DirFrom(p, i) ==
    IF i < 1 THEN <<".">>
    ELSE IF p[i] = Separator THEN Clean(SubSeq(p, 1, i))
    ELSE DirFrom(p, i - 1)

\* filepath.Dir
Dir(p) == DirFrom(p, Len(p))

----------------------------------------------------------------------------
(* LocalStorageService over the file system f, rooted at base *)

RECURSIVE InfoLoop_break(_, _, _, _)
\* the loop of ReadDirectory leaving at the first e.Info() that fails
InfoLoop_break(entries, lost, i, acc) ==
    IF i > Len(entries) THEN acc
    ELSE IF entries[i].name \in lost
      THEN [acc EXCEPT !.sys = Append(@, Ev("Warnf", <<entries[i].name>>))]
    ELSE InfoLoop_break(entries, lost, i + 1,
                        [acc EXCEPT !.entries = Append(@, entries[i])])

RECURSIVE InfoLoop(_, _, _, _)
\* the loop of ReadDirectory over the entries os.ReadDir returned; e.Info()
\* fails for the entries named in lost
InfoLoop(entries, lost, i, acc) ==
    IF i > Len(entries) THEN acc
    ELSE IF entries[i].name \in lost
      THEN InfoLoop(entries, lost, i + 1,
                    [acc EXCEPT !.sys = Append(@, Ev("Warnf", <<entries[i].name>>))])
    ELSE InfoLoop(entries, lost, i + 1,
                  [acc EXCEPT !.entries = Append(@, entries[i])])

\* ReadDirectory once os.ReadDir has answered rd
ReadDirectoryRead(rd, lost) ==
    IF rd.err # NoError THEN [err |-> rd.err, entries |-> <<>>, sys |-> <<>>]
    ELSE InfoLoop(rd.entries, lost, 1, [err |-> NoError, entries |-> <<>>, sys |-> <<>>])

ReadDirectory(f, base, relPath, lost) ==
    ReadDirectoryRead(ReadDir(f, GetAbsolutePath(base, relPath)), lost)

\* WriteFile once the parent directories are made
WriteFileIn(mk, fullPath, data, ft) ==
    IF mk.err # NoError THEN mk
    ELSE [fs |-> CreateAndCopy(mk.fs, fullPath, data, ft).fs,
          err |-> CreateAndCopy(mk.fs, fullPath, data, ft).err,
          sys |-> mk.sys \o CreateAndCopy(mk.fs, fullPath, data, ft).sys]

WriteFile(f, base, relPath, data, ft) ==
    WriteFileIn(MkdirAll(f, Dir(GetAbsolutePath(base, relPath))),
                GetAbsolutePath(base, relPath), data, ft)

Remove(f, base, relPath) == RemoveAll(f, GetAbsolutePath(base, relPath))

Move(f, base, oldRel, newRel) ==
    IF newRel = PathEmpty THEN OsResult(f, <<"ErrInvalid">>, <<>>)
    ELSE OsRename(f, GetAbsolutePath(base, oldRel), GetAbsolutePath(base, newRel))

CreateDirectory(f, base, relPath) == MkdirAll(f, GetAbsolutePath(base, relPath))

----------------------------------------------------------------------------
(* the archive walk of ServeFolderAsZip over the file system *)

\* the absolute path of the node n
NodePath(n) == <<Separator>> \o JoinSegs(n)

\* shouldSkipFile, on info.Name()
shouldSkipFile(name) == HasPrefix(name, HiddenFilePrefix)

\* the failure ft strikes the node being visited, at the step kind
Hit(st, ft, kind) == ft.kind = kind /\ ft.at = st.visits

\* the deferred srcFile.Close of addFileToZip, and its warning when it fails
CloseSrc(n, ft) ==
    IF ft.closeFails THEN <<Ev("Close", n), Ev("Warnf", n)>> ELSE <<Ev("Close", n)>>

\* addFileToZip with srcFile.Close only on the success path
addFileToZip_closeOnSuccess(st, rel, n, data, ft) ==
    IF rel.failed
      THEN [st EXCEPT !.err = Errorf("failed to get relative path", <<"Rel">>)]
    ELSE IF Hit(st, ft, "create")
      THEN [st EXCEPT !.err = Errorf("failed to create zip entry", <<"zip">>)]
    ELSE IF Hit(st, ft, "open")
      THEN [st EXCEPT !.archive = Append(@, [name |-> rel.path, data |-> <<>>]),
                      !.err = Errorf("failed to open file", PathErr("EACCES"))]
    ELSE IF Hit(st, ft, "copy")
      THEN [st EXCEPT !.archive = Append(@, [name |-> rel.path, data |-> <<>>]),
                      !.sys = Append(@, Ev("Open", n)),
                      !.err = Errorf("failed to copy file to zip", <<"EIO">>)]
    ELSE [st EXCEPT !.archive = Append(@, [name |-> rel.path, data |-> data]),
                    !.sys = Append(@, Ev("Open", n)) \o CloseSrc(n, ft)]

\* addFileToZip for the file at node n holding data; rel is what
\* filepath.Rel(fullPath, filePath) returns
addFileToZip(st, rel, n, data, ft) ==
    IF rel.failed
      THEN [st EXCEPT !.err = Errorf("failed to get relative path", <<"Rel">>)]
    ELSE IF Hit(st, ft, "create")
      THEN [st EXCEPT !.err = Errorf("failed to create zip entry", <<"zip">>)]
    ELSE IF Hit(st, ft, "open")
      THEN [st EXCEPT !.archive = Append(@, [name |-> rel.path, data |-> <<>>]),
                      !.err = Errorf("failed to open file", PathErr("EACCES"))]
    ELSE IF Hit(st, ft, "copy")
      THEN [st EXCEPT !.archive = Append(@, [name |-> rel.path, data |-> <<>>]),
                      !.sys = Append(@, Ev("Open", n)) \o CloseSrc(n, ft),
                      !.err = Errorf("failed to copy file to zip", <<"EIO">>)]
    ELSE [st EXCEPT !.archive = Append(@, [name |-> rel.path, data |-> data]),
                    !.sys = Append(@, Ev("Open", n)) \o CloseSrc(n, ft)]

RECURSIVE WalkNode(_, _, _, _, _)
RECURSIVE WalkChildren(_, _, _, _, _, _, _)

\* the callback of createZipArchive on the node n
WalkVisit(f, root, n, st, ft) ==
    IF Hit(st, ft, "walk") THEN [st EXCEPT !.err = PathErr("EACCES")]
    ELSE IF shouldSkipFile(Base(NodePath(n))) THEN st
    ELSE IF f[n].isDir
      THEN WalkChildren(f, root, n, SortNames(ChildNames(f, n)), 1, st, ft)
    ELSE addFileToZip(st, Rel(NodePath(root), NodePath(n)), n, f[n].data, ft)

\* filepath.Walk that goes on to the next node after the callback's error
WalkNode_keepsGoing(f, root, n, st, ft) ==
    WalkVisit(f, root, n, [st EXCEPT !.visits = @ + 1], ft)

\* filepath.Walk reaching the node n: nothing more is visited after an error
WalkNode(f, root, n, st, ft) ==
    IF st.err # NoError THEN st
    ELSE WalkVisit(f, root, n, [st EXCEPT !.visits = @ + 1], ft)

\* filepath.Walk over the entries of the directory n, in name order
WalkChildren(f, root, n, names, i, st, ft) ==
    IF i > Len(names) THEN st
    ELSE WalkChildren(f, root, n, names, i + 1,
                      WalkNode(f, root, Append(n, names[i]), st, ft), ft)

NoWalk == [archive |-> <<>>, sys |-> <<>>, err |-> NoError, visits |-> 0]

\* createZipArchive(zipWriter, fullPath) over the tree at root
createZipArchive(f, root, ft) == WalkNode(f, root, root, NoWalk, ft)

\* the deferred zipWriter.Close of ServeFolderAsZip, and its log when it fails
CloseZip(ft) ==
    IF ft.closeFails THEN <<Ev("ZipClose", <<>>), Ev("Errorf", <<>>)>>
    ELSE <<Ev("ZipClose", <<>>)>>

\* the ways an archive walk over at most k nodes can fail
Faults(k) ==
    {[kind |-> "none", at |-> 0, closeFails |-> c] : c \in BOOLEAN}
    \cup [kind : {"walk", "create", "open", "copy"}, at : 1..k, closeFails : BOOLEAN]

\* http.ServeFile of a plain GET for fullPath
HttpServeFile(f, fullPath) ==
    IF Elems(fullPath) \notin DOMAIN f THEN [kind |-> "error", body |-> <<>>]
    ELSE IF f[Elems(fullPath)].isDir THEN [kind |-> "dir", body |-> <<>>]
    ELSE [kind |-> "file", body |-> f[Elems(fullPath)].data]

NoSink == [kind |-> "none", body |-> <<>>]

----------------------------------------------------------------------------
(* the HTTP handler's mapping of errors to responses *)

StatusBadRequest == 400
StatusForbidden == 403
StatusNotFound == 404
StatusInternalServerError == 500

\* getErrorType testing FileNotFound before the forbidden kinds are told apart
getErrorType_notFoundAsForbidden(e) ==
    IF \/ ErrorsIs(e, ErrPathTraversal)
       \/ ErrorsIs(e, ErrInvalidName)
       \/ ErrorsIs(e, ErrPathTooLong)
      THEN "errorTypeBadRequest"
    ELSE IF \/ ErrorsIs(e, ErrUnsupportedOperation)
            \/ ErrorsIs(e, ErrPermissionDenied)
            \/ ErrorsIs(e, ErrFileNotFound)
      THEN "errorTypeForbidden"
    ELSE "errorTypeInternal"

\* getErrorType
getErrorType(e) ==
    IF \/ ErrorsIs(e, ErrPathTraversal)
       \/ ErrorsIs(e, ErrInvalidName)
       \/ ErrorsIs(e, ErrPathTooLong)
      THEN "errorTypeBadRequest"
    ELSE IF ErrorsIs(e, ErrUnsupportedOperation) \/ ErrorsIs(e, ErrPermissionDenied)
      THEN "errorTypeForbidden"
    ELSE IF ErrorsIs(e, ErrFileNotFound)
      THEN "errorTypeNotFound"
    ELSE "errorTypeInternal"

\* the status and client message handleError writes for the class t
StatusOf(t, message) ==
    CASE t = "errorTypeBadRequest" ->
           [code |-> StatusBadRequest, message |-> "InternalError"]
      [] t = "errorTypeForbidden" ->
           [code |-> StatusForbidden, message |-> "ForbiddenFile"]
      [] t = "errorTypeNotFound" ->
           [code |-> StatusNotFound, message |-> "InternalError"]
      [] OTHER ->
           [code |-> StatusInternalServerError, message |-> message]

\* handleError
handleError(e, message) == StatusOf(getErrorType(e), message)

NoStatus == [code |-> 0, message |-> ""]

\* the errors at the bottom of a chain
LeafErrors ==
    {"ErrPathTraversal", "ErrPathTooLong", "ErrInvalidName", "ErrFileNotFound",
     "ErrPermissionDenied", "ErrUnsupportedOperation",
     "ErrNotExist", "ErrPermission", "ENOENT", "EACCES", "unknown"}

\* the non-nil errors handed to handleError: a leaf under at most MaxWrap
\* wrappers
HandlerErrors ==
    {w \o <<l>> : w \in SeqsUpTo({"msg", "PathError"}, MaxWrap), l \in LeafErrors}

----------------------------------------------------------------------------
(* the state machine: a caller invokes one operation at a time on an idle  *)
(* Engine; the state records the call and everything it did and returned   *)

\* no callers running side by side
NoConc == [link |-> 0, moved |-> 0, ino |-> <<>>]

Init ==
    /\ basePath \in BasePaths
    /\ pc = "idle"
    /\ op = "none"
    /\ args = <<>>
    /\ stor = NoStor
    /\ calls = <<>>
    /\ err = NoError
    /\ ret = <<>>
    /\ files = NilFiles
    /\ resp = NoResp
    /\ fs = MakeDirs(RootFs, Elems(basePath))
    /\ pre = fs
    /\ sys = <<>>
    /\ sink = NoSink
    /\ archive = <<>>
    /\ status = NoStatus
    /\ conc = NoConc

\* the answers to enumerate for a call with raw paths ps: the storage is only
\* asked when every path sanitizes, otherwise its answer plays no part
Answers(ps, S) ==
    IF \A i \in 1..Len(ps) : sanitizePath(basePath, ps[i]).err = NoError
      THEN S
      ELSE {CHOOSE x \in S : TRUE}

Finish(name, a, r) ==
    /\ pc' = "done"
    /\ op' = name
    /\ args' = a
    /\ stor' = r.stor
    /\ calls' = r.calls
    /\ err' = r.err
    /\ files' = r.files
    /\ resp' = r.resp
    /\ UNCHANGED <<basePath, ret, fs, pre, sys, sink, archive, status, conc>>

DoSanitizePath ==
    /\ pc = "idle"
    /\ \E p \in RawPaths :
         LET s == sanitizePath(basePath, p) IN
         /\ pc' = "done"
         /\ op' = "sanitizePath"
         /\ args' = <<p>>
         /\ calls' = s.calls
         /\ err' = s.err
         /\ ret' = s.path
         /\ UNCHANGED <<basePath, stor, files, resp, fs, pre, sys, sink, archive, status,
                        conc>>

DoList ==
    /\ pc = "idle"
    /\ \E p \in OpPaths : \E rd \in Answers(<<p>>, ReadDirReturns) :
         \E r \in {List(basePath, p, rd)} : Finish("List", <<p>>, r)

DoUploadFile ==
    /\ pc = "idle"
    /\ \E p \in OpPaths, data \in Streams : \E wr \in Answers(<<p>>, StorageReturns) :
         \E r \in {UploadFile(basePath, p, data, wr)} : Finish("UploadFile", <<p, data>>, r)

DoDelete ==
    /\ pc = "idle"
    /\ \E p \in OpPaths : \E rm \in Answers(<<p>>, StorageReturns) :
         \E r \in {Delete(basePath, p, rm)} : Finish("Delete", <<p>>, r)

DoRename ==
    /\ pc = "idle"
    /\ \E o \in RenamePaths, n \in RenamePaths :
         \E mv \in Answers(<<o, n>>, StorageReturns) :
           \E r \in {Rename(basePath, o, n, mv)} : Finish("Rename", <<o, n>>, r)

DoCreateFolder ==
    /\ pc = "idle"
    /\ \E p \in OpPaths : \E mk \in Answers(<<p>>, StorageReturns) :
         \E r \in {CreateFolder(basePath, p, mk)} : Finish("CreateFolder", <<p>>, r)

DoServeFile ==
    /\ pc = "idle"
    /\ \E p \in OpPaths : \E stat \in Answers(<<p>>, StatReturns) :
         \E r \in {ServeFile(basePath, p, stat)} : Finish("ServeFile", <<p>>, r)

DoServeFolderAsZip ==
    /\ pc = "idle"
    /\ \E p \in OpPaths : \E stat \in Answers(<<p>>, StatReturns) :
         \E walk \in (IF stat.err = NoError /\ stat.isDir THEN WalkReturns ELSE {NoError}) :
         \E r \in {ServeFolderAsZip(basePath, p, stat, walk)} : Finish("ServeFolderAsZip", <<p>>, r)

\* the call has returned; the Engine keeps no state between calls
Return ==
    /\ pc = "done"
    /\ pc' = "idle"
    /\ op' = "none"
    /\ args' = <<>>
    /\ stor' = NoStor
    /\ calls' = <<>>
    /\ err' = NoError
    /\ ret' = <<>>
    /\ files' = NilFiles
    /\ resp' = NoResp
    /\ pre' = fs
    /\ sys' = <<>>
    /\ sink' = NoSink
    /\ archive' = <<>>
    /\ status' = NoStatus
    /\ UNCHANGED <<basePath, fs, conc>>

\* handleError answering the request with the status of an error
DoHandleError ==
    /\ pc = "idle"
    /\ \E e \in HandlerErrors :
         /\ pc' = "done"
         /\ op' = "handleError"
         /\ args' = <<e>>
         /\ status' = handleError(e, "message")
         /\ UNCHANGED <<basePath, stor, calls, err, ret, files, resp,
                        fs, pre, sys, sink, archive, conc>>

Next ==
    \/ DoSanitizePath
    \/ DoHandleError
    \/ DoList
    \/ DoUploadFile
    \/ DoDelete
    \/ DoRename
    \/ DoCreateFolder
    \/ DoServeFile
    \/ DoServeFolderAsZip
    \/ Return

Spec == Init /\ [][Next]_vars

----------------------------------------------------------------------------
(* the Engine over the local storage and a file system that never fails    *)
(* for lack of permission: the storage's answers come from the tree        *)

\* the relative nodes the raw paths below lead to: the base, three entries
\* of it, one of them hidden, and entries of two of those
RelNodes ==
    {<<>>}
    \cup {<<a>> : a \in EntryNames \cup {<<"s", "s">>}}
    \cup {<<a, <<"s">>>> : a \in EntryNames}
    \cup {<< <<"s">>, <<".", "s">> >>}

\* the raw paths handed to the operations: every node, a path that leaves
\* the base and comes back, and a name the pattern rejects
FsPaths == {JoinSegs(q) : q \in RelNodes} \cup {<<".", ".", "/", "s">>, <<"<">>}

\* the nodes the tree is kept within
FsNodes ==
    {SubSeq(Elems(basePath), 1, k) : k \in 0..Len(Elems(basePath))}
    \cup {Elems(basePath) \o q : q \in RelNodes}

FsInit == Init /\ basePath = <<"/", "s">>

\* the storage is not called: the tree is as it was
Untouched(f) == [fs |-> f, err |-> NoError, sys |-> <<>>]

FsFinish(name, a, r, f2, evs, snk, arch) ==
    /\ DOMAIN f2 \subseteq FsNodes
    /\ pc' = "done"
    /\ op' = name
    /\ args' = a
    /\ stor' = r.stor
    /\ calls' = r.calls
    /\ err' = r.err
    /\ files' = r.files
    /\ resp' = r.resp
    /\ fs' = f2
    /\ pre' = fs
    /\ sys' = evs
    /\ sink' = snk
    /\ archive' = arch
    /\ UNCHANGED <<basePath, ret, status, conc>>

\* the entries whose e.Info() may fail during a listing: any of those of the
\* directory listed
LostAt(s, f) ==
    IF s.err # NoError THEN {{}}
    ELSE SUBSET ChildNames(f, Elems(GetAbsolutePath(basePath, s.path)))

FsList ==
    /\ pc = "idle"
    /\ \E p \in FsPaths : \E s \in {sanitizePath(basePath, p)} :
         \E lost \in LostAt(s, fs) :
         \E rd \in {ReadDirectory(fs, basePath, s.path, lost)} :
         \E r \in {ListSanitized(s, [err |-> rd.err, entries |-> rd.entries])} :
           FsFinish("List", <<p>>, r, fs,
                    IF s.err = NoError THEN <<Ev("ReadDir", <<>>)>> \o rd.sys ELSE <<>>,
                    NoSink, <<>>)

FsUploadFile ==
    /\ pc = "idle"
    /\ \E p \in FsPaths, data \in Streams : \E s \in {sanitizePath(basePath, p)} :
         \E ft \in IF s.err = NoError THEN WriteFaults(Len(data)) ELSE {NoWriteFault} :
         \E w \in {IF s.err = NoError THEN WriteFile(fs, basePath, s.path, data, ft)
                    ELSE Untouched(fs)} :
         \E r \in {UploadFileSanitized(s, data, w.err)} :
           FsFinish("UploadFile", <<p, data, ft>>, r, w.fs, w.sys, NoSink, <<>>)

FsDelete ==
    /\ pc = "idle"
    /\ \E p \in FsPaths : \E s \in {sanitizePath(basePath, p)} :
         \E w \in {IF s.err = NoError THEN Remove(fs, basePath, s.path)
                    ELSE Untouched(fs)} :
         \E r \in {DeleteSanitized(s, w.err)} :
           FsFinish("Delete", <<p>>, r, w.fs, w.sys, NoSink, <<>>)

FsRename ==
    /\ pc = "idle"
    /\ \E o \in FsPaths, n \in FsPaths :
         \E so \in {sanitizePath(basePath, o)} : \E sn \in {sanitizePath(basePath, n)} :
         \E w \in {IF so.err = NoError /\ sn.err = NoError
                      THEN Move(fs, basePath, so.path, sn.path)
                      ELSE Untouched(fs)} :
         \E r \in {RenameSanitized(so, sn, w.err)} :
           FsFinish("Rename", <<o, n>>, r, w.fs, w.sys, NoSink, <<>>)

FsCreateFolder ==
    /\ pc = "idle"
    /\ \E p \in FsPaths : \E s \in {sanitizePath(basePath, p)} :
         \E w \in {IF s.err = NoError THEN CreateDirectory(fs, basePath, s.path)
                    ELSE Untouched(fs)} :
         \E r \in {CreateFolderSanitized(s, w.err)} :
           FsFinish("CreateFolder", <<p>>, r, w.fs, w.sys, NoSink, <<>>)

FsServeFile ==
    /\ pc = "idle"
    /\ \E p \in FsPaths : \E s \in {sanitizePath(basePath, p)} :
         \E stat \in {Stat(fs, GetAbsolutePath(basePath, s.path))} :
         \E r \in {ServeFileSanitized(basePath, s, stat)} :
           FsFinish("ServeFile", <<p>>, r, fs,
                    IF s.err # NoError THEN <<>>
                    ELSE IF r.err # NoError THEN <<Ev("Stat", <<>>)>>
                    ELSE <<Ev("Stat", <<>>), Ev("ServeFile", <<>>)>>,
                    IF r.err = NoError THEN HttpServeFile(fs, r.resp.served) ELSE NoSink,
                    <<>>)

\* the failures to draw for the walk of the folder at fullPath: none unless
\* the walk is reached
FaultsAt(s, stat, f, fullPath) ==
    IF s.err = NoError /\ stat.err = NoError /\ stat.isDir
      THEN Faults(Cardinality({m \in DOMAIN f : HasPrefix(m, Elems(fullPath))}))
      ELSE {[kind |-> "none", at |-> 0, closeFails |-> FALSE]}

\* the events of ServeFolderAsZip from zip.NewWriter to the deferred Close
ZipEvents(w, ft) == <<Ev("Stat", <<>>), Ev("NewWriter", <<>>)>> \o w.sys \o CloseZip(ft)

FsServeFolderAsZip ==
    /\ pc = "idle"
    /\ \E p \in FsPaths : \E s \in {sanitizePath(basePath, p)} :
         \E stat \in {Stat(fs, GetAbsolutePath(basePath, s.path))} :
         \E ft \in FaultsAt(s, stat, fs, GetAbsolutePath(basePath, s.path)) :
         \E w \in {IF s.err = NoError /\ stat.err = NoError /\ stat.isDir
                      THEN createZipArchive(fs, Elems(GetAbsolutePath(basePath, s.path)), ft)
                      ELSE NoWalk} :
         \E r \in {ServeFolderSanitized(basePath, s, stat, w.err)} :
           FsFinish("ServeFolderAsZip", <<p>>, r, fs,
                    IF s.err # NoError THEN <<>>
                    ELSE IF stat.err # NoError \/ ~stat.isDir THEN <<Ev("Stat", <<>>)>>
                    ELSE ZipEvents(w, ft),
                    NoSink, w.archive)

FsNext ==
    \/ FsList
    \/ FsUploadFile
    \/ FsDelete
    \/ FsRename
    \/ FsCreateFolder
    \/ FsServeFile
    \/ FsServeFolderAsZip
    \/ Return

FsSpec == FsInit /\ [][FsNext]_vars

----------------------------------------------------------------------------
(* the HTTP handler in front of the Engine, over the same file system: a   *)
(* request is answered whole, the Engine being called or not                *)

StatusOK == 200
StatusFound == 302

\* h.maxUploadSize, as configured
maxUploadSize == 2

\* h.forbiddenExt, as configured
forbiddenExt == << <<".", "s">> >>

\* strings.ToLower
ToLower(p) == [i \in 1..Len(p) |-> IF p[i] = "S" THEN "s" ELSE p[i]]

\* isForbidden matching the extension only
isForbidden_extOnly(fileName) ==
    \E i \in 1..Len(forbiddenExt) : ToLower(Ext(fileName)) = forbiddenExt[i]

\* isForbidden
isForbidden(fileName) ==
    \E i \in 1..Len(forbiddenExt) :
      \/ ToLower(Ext(fileName)) = forbiddenExt[i]
      \/ HasPrefix(fileName, forbiddenExt[i])

\* buildFullPath
buildFullPath(currentPath, name) ==
    IF currentPath # PathEmpty THEN Join(currentPath, name) ELSE name

\* normalizeParentPath
normalizeParentPath(path) ==
    IF Dir(path) = PathCurrent THEN PathEmpty ELSE Dir(path)

\* the request body as r.FormFile reads it through http.MaxBytesReader: the
\* file part and the multipart framing around it, extra bytes long; declared
\* is the Content-Length, -1 when the transfer is chunked.  The form parses
\* when the body is whole and no longer than the limit.
FormFile(rq) ==
    IF Len(rq.data) + rq.extra > maxUploadSize
         /\ (rq.declared = -1 \/ rq.declared > maxUploadSize)
      THEN <<"MaxBytesError">>
    ELSE IF rq.declared # -1 /\ rq.declared # Len(rq.data) + rq.extra
      THEN <<"ErrUnexpectedEOF">>
    ELSE NoError

\* the closure of Upload up to the call of the Engine: the error it returns
\* before calling, nil when it goes on to call
UploadChecks(rq) ==
    IF rq.declared > maxUploadSize
      THEN Errorf("file size exceeds maximum", ErrUnsupportedOperation)
    ELSE IF FormFile(rq) # NoError
      THEN Errorf("failed to get form file", FormFile(rq))
    ELSE IF Len(rq.data) > maxUploadSize
      THEN Errorf("file size exceeds maximum", ErrUnsupportedOperation)
    ELSE IF isForbidden(rq.filename) THEN ErrUnsupportedOperation
    ELSE NoError

\* the Engine is not called
NoEngine(e) == Result(<<>>, e, NilFiles, NoResp, NoStor)

\* redirectToPath
Redirect == [code |-> StatusFound, message |-> ""]

\* the response once the handler is through with the error e of its call
Answer(e, message, ok) == IF e # NoError THEN handleError(e, message) ELSE ok

\* the file names of the upload forms and the new names of the rename forms
HNames == {<<"s">>, <<".", "s">>, <<".", "s", "s">>, <<"s", ".", "S">>, <<".", "S">>}

\* the directories of the forms
HDirs == {PathEmpty, <<"s">>}

\* the paths asked for in queries and forms
HPaths ==
    {PathEmpty, <<"s">>, <<".", "s">>, <<".", "s", "s">>, <<"s", "/", "s">>,
     <<"s", "/", ".", "s">>, <<".", "s", "/", ".">>, <<".", "s", "/">>,
     <<"s", "/", "/", ".", "s">>, <<".", "s", "/", "s", "/", ".", ".">>,
     <<"s", "/", ".", "s", "/", ".">>, <<".", ".", "/", "s">>}

\* the bytes of the uploaded files
HStreams == {<<>>, <<1>>, <<1, 1, 1>>}

UploadRequests ==
    [method : {"GET", "POST"}, declared : -1..(maxUploadSize + 2),
     extra : 1..MaxExtra, filename : HNames, data : HStreams, path : HDirs]

HFinish(name, a, r, f2, evs, snk, arch, st) ==
    /\ DOMAIN f2 \subseteq FsNodes
    /\ pc' = "done"
    /\ op' = name
    /\ args' = a
    /\ stor' = r.stor
    /\ calls' = r.calls
    /\ err' = r.err
    /\ files' = r.files
    /\ resp' = r.resp
    /\ fs' = f2
    /\ pre' = fs
    /\ sys' = evs
    /\ sink' = snk
    /\ archive' = arch
    /\ status' = st
    /\ UNCHANGED <<basePath, ret, conc>>

\* Upload, with handlePost around its closure
HUpload ==
    /\ pc = "idle"
    /\ \E rq \in UploadRequests : \E g \in {UploadChecks(rq)} :
         IF rq.method # "POST"
           THEN HFinish("h.Upload", rq, NoEngine(NoError), fs, <<>>, NoSink, <<>>, Redirect)
         ELSE IF g # NoError
           THEN HFinish("h.Upload", rq, NoEngine(g), fs, <<>>, NoSink, <<>>,
                        handleError(g, "InternalError"))
         ELSE \E t \in {buildFullPath(rq.path, rq.filename)} :
              \E s \in {sanitizePath(basePath, t)} :
              \E w \in {IF s.err = NoError THEN WriteFile(fs, basePath, s.path, rq.data, NoWriteFault)
                         ELSE Untouched(fs)} :
              \E r \in {UploadFileSanitized(s, rq.data, w.err)} :
                HFinish("h.Upload", rq, r, w.fs, <<Ev("uc.UploadFile", t)>> \o w.sys,
                        NoSink, <<>>, Answer(r.err, "InternalError", Redirect))

\* Rename, with handlePost around its closure
HRename ==
    /\ pc = "idle"
    /\ \E o \in HPaths, n \in HNames :
         \E t \in {Join(normalizeParentPath(o), n)} :
         \E so \in {sanitizePath(basePath, o)} : \E sn \in {sanitizePath(basePath, t)} :
         \E w \in {IF so.err = NoError /\ sn.err = NoError
                      THEN Move(fs, basePath, so.path, sn.path)
                      ELSE Untouched(fs)} :
         \E r \in {RenameSanitized(so, sn, w.err)} :
           HFinish("h.Rename", [old |-> o, new |-> n], r, w.fs,
                   <<Ev("uc.Rename", t)>> \o w.sys, NoSink, <<>>,
                   Answer(r.err, "InternalError", Redirect))

\* serve(w, r, path, false), the body of Download
HDownload ==
    /\ pc = "idle"
    /\ \E p \in HPaths :
         IF isForbidden(Base(p))
           THEN HFinish("h.Download", [path |-> p], NoEngine(NoError), fs, <<>>, NoSink,
                        <<>>, [code |-> StatusForbidden, message |-> "ForbiddenFile"])
         ELSE \E s \in {sanitizePath(basePath, p)} :
              \E stat \in {Stat(fs, GetAbsolutePath(basePath, s.path))} :
              \E r \in {ServeFileSanitized(basePath, s, stat)} :
                HFinish("h.Download", [path |-> p], r, fs, <<Ev("uc.ServeFile", p)>>,
                        IF r.err = NoError THEN HttpServeFile(fs, r.resp.served)
                        ELSE NoSink,
                        <<>>,
                        Answer(r.err, "CannotServe", [code |-> StatusOK, message |-> ""]))

\* serve(w, r, path, true), the body of DownloadFolder
HDownloadFolder ==
    /\ pc = "idle"
    /\ \E p \in HPaths :
         IF isForbidden(Base(p))
           THEN HFinish("h.DownloadFolder", [path |-> p], NoEngine(NoError), fs, <<>>,
                        NoSink, <<>>,
                        [code |-> StatusForbidden, message |-> "ForbiddenFile"])
         ELSE \E s \in {sanitizePath(basePath, p)} :
              \E stat \in {Stat(fs, GetAbsolutePath(basePath, s.path))} :
              \E w \in {IF s.err = NoError /\ stat.err = NoError /\ stat.isDir
                           THEN createZipArchive(fs, Elems(GetAbsolutePath(basePath, s.path)),
                                                 [kind |-> "none", at |-> 0,
                                                  closeFails |-> FALSE])
                           ELSE NoWalk} :
              \E r \in {ServeFolderSanitized(basePath, s, stat, w.err)} :
                HFinish("h.DownloadFolder", [path |-> p], r, fs,
                        <<Ev("uc.ServeFolderAsZip", p)>>, NoSink, w.archive,
                        Answer(r.err, "CannotServe", [code |-> StatusOK, message |-> ""]))

HNext ==
    \/ HUpload
    \/ HRename
    \/ HDownload
    \/ HDownloadFolder
    \/ Return

HSpec == FsInit /\ [][HNext]_vars

----------------------------------------------------------------------------
(* callers running side by side on one path of the base, as the requests   *)
(* of the HTTP server do, with no lock in the Engine or the storage: a     *)
(* reader in ServeFile, another caller in Delete or Rename, and two        *)
(* writers in UploadFile.  Each step is one access to the file system.     *)
(* The path names an inode (conc.link, 0 when it names none); an open file *)
(* keeps its inode whatever happens to the name.                           *)

\* the path the callers contend for, and where Rename moves it
CPath == <<"s">>
CDest == <<"s", "s">>

\* the bytes of the stream of the writer w, and of the file stored beforehand
DataOf(w) == [i \in 1..MaxChunks |-> IF w = "w1" THEN 1 ELSE 2]
StoredData == [i \in 1..MaxChunks |-> 3]

Writers == {"w1", "w2"}

\* a caller that has not begun
Fresh == [pc |-> "idle", fd |-> 0, off |-> 0, size |-> 0, err |-> NoError,
          sink |-> NoSink]

\* the tree the inodes and the two names make
TreeOf(c) ==
    LET base == MakeDirs(RootFs, Elems(basePath))
        one == IF c.link = 0 THEN base
               ELSE Put(base, Elems(GetAbsolutePath(basePath, CPath)),
                        FileNode(c.ino[c.link]))
    IN IF c.moved = 0 THEN one
       ELSE Put(one, Elems(GetAbsolutePath(basePath, CDest)), FileNode(c.ino[c.moved]))

CInit ==
    /\ basePath = <<"/", "s">>
    /\ pc = "idle"
    /\ op = "none"
    /\ args = <<>>
    /\ stor = NoStor
    /\ calls = <<>>
    /\ err = NoError
    /\ ret = <<>>
    /\ files = NilFiles
    /\ resp = NoResp
    /\ \E stored \in BOOLEAN :
         conc = [link |-> IF stored THEN 1 ELSE 0,
                 moved |-> 0,
                 ino |-> IF stored THEN <<StoredData>> ELSE <<>>,
                 serve |-> Fresh, other |-> Fresh, w1 |-> Fresh, w2 |-> Fresh]
    /\ fs = TreeOf(conc)
    /\ pre = fs
    /\ sys = <<>>
    /\ sink = NoSink
    /\ archive = <<>>
    /\ status = NoStatus

\* a step of a caller: the shared file system and the callers become c
CStep(c) ==
    /\ conc' = c
    /\ fs' = TreeOf(c)
    /\ UNCHANGED <<basePath, pc, op, args, stor, calls, err, ret, files, resp,
                   pre, sys, sink, archive, status>>

\* what os.Stat and os.Open find under the name
Lookup(c) ==
    IF c.link = 0 THEN [err |-> PathErr("ENOENT"), isDir |-> FALSE]
    ELSE [err |-> NoError, isDir |-> FALSE]

\* ServeFile up to os.Stat: an error ends the call, otherwise http.ServeFile
\* is still to run
ServeStat ==
    /\ conc.serve.pc = "idle"
    /\ \E r \in {ServeFileSanitized(basePath, sanitizePath(basePath, CPath), Lookup(conc))} :
         CStep([conc EXCEPT !.serve.pc = IF r.err # NoError THEN "done" ELSE "statted",
                            !.serve.err = r.err])

\* http.ServeFile opening the file and reading its size; a file that cannot
\* be opened is answered by an error page, and ServeFile returns nil
ServeOpen ==
    /\ conc.serve.pc = "statted"
    /\ IF conc.link = 0
         THEN CStep([conc EXCEPT !.serve.pc = "done",
                                 !.serve.sink = [kind |-> "error", body |-> <<>>]])
         ELSE CStep([conc EXCEPT !.serve.pc = "opened",
                                 !.serve.fd = conc.link,
                                 !.serve.size = Len(conc.ino[conc.link])])

\* http.ServeFile copying the bytes of the open file, at most the size read
ServeStream ==
    /\ conc.serve.pc = "opened"
    /\ CStep([conc EXCEPT
         !.serve.pc = "done",
         !.serve.sink =
            [kind |-> "file",
             body |-> SubSeq(conc.ino[conc.serve.fd], 1,
                             IF Len(conc.ino[conc.serve.fd]) < conc.serve.size
                               THEN Len(conc.ino[conc.serve.fd])
                               ELSE conc.serve.size)]])

\* Delete(CPath) by another caller: os.RemoveAll takes the name away
OtherDelete ==
    /\ conc.other.pc = "idle"
    /\ \E r \in {DeleteSanitized(sanitizePath(basePath, CPath), NoError)} :
         CStep([conc EXCEPT !.other.pc = "done",
                            !.other.err = r.err,
                            !.link = IF r.err = NoError THEN 0 ELSE @])

\* Rename(CPath, CDest) by another caller: os.Rename gives the inode the new
\* name, or fails when the old name is not there
OtherRename ==
    /\ conc.other.pc = "idle"
    /\ \E r \in {RenameSanitized(sanitizePath(basePath, CPath),
                                 sanitizePath(basePath, CDest),
                                 IF conc.link = 0 THEN LinkErr("ENOENT") ELSE NoError)} :
         CStep([conc EXCEPT !.other.pc = "done",
                            !.other.err = r.err,
                            !.moved = IF r.err = NoError THEN conc.link ELSE @,
                            !.link = IF r.err = NoError THEN 0 ELSE @])

\* UploadFile up to os.Create: the name gets a new empty inode, or the inode
\* it has is truncated; the writer holds it open at offset 0
UploadCreate(w) ==
    /\ conc[w].pc = "idle"
    /\ sanitizePath(basePath, CPath).err = NoError
    /\ IF conc.link = 0
         THEN CStep([conc EXCEPT ![w].pc = "copy",
                                 ![w].fd = Len(conc.ino) + 1,
                                 !.link = Len(conc.ino) + 1,
                                 !.ino = Append(@, <<>>)])
         ELSE CStep([conc EXCEPT ![w].pc = "copy",
                                 ![w].fd = conc.link,
                                 !.ino[conc.link] = <<>>])

\* the bytes d with the byte b written at the offset off
WriteAt(d, off, b) ==
    IF off < Len(d) THEN [d EXCEPT ![off + 1] = b]
    ELSE d \o [i \in 1..(off - Len(d)) |-> 0] \o <<b>>

\* one round of io.Copy: the next chunk of the stream is written at the
\* writer's own offset
UploadWrite(w) ==
    /\ conc[w].pc = "copy"
    /\ conc[w].off < Len(DataOf(w))
    /\ CStep([conc EXCEPT ![w].off = @ + 1,
                          !.ino[conc[w].fd] =
                             WriteAt(@, conc[w].off, DataOf(w)[conc[w].off + 1])])

\* the stream is at its end: the file is closed and UploadFile returns
UploadClose(w) ==
    /\ conc[w].pc = "copy"
    /\ conc[w].off = Len(DataOf(w))
    /\ \E r \in {UploadFileSanitized(sanitizePath(basePath, CPath), DataOf(w), NoError)} :
         CStep([conc EXCEPT ![w].pc = "done", ![w].err = r.err])

CNext ==
    \/ ServeStat
    \/ ServeOpen
    \/ ServeStream
    \/ OtherDelete
    \/ OtherRename
    \/ \E w \in Writers : UploadCreate(w)
    \/ \E w \in Writers : UploadWrite(w)
    \/ \E w \in Writers : UploadClose(w)

CSpec == CInit /\ [][CNext]_vars

----------------------------------------------------------------------------
(* Vocabulary of the properties.  The resolution of a path against a       *)
(* directory is defined here on its own, element by element, as a file     *)
(* system resolves it.                                                     *)

RECURSIVE ResolveFrom(_, _, _)
\* the directory reached from the directory `at` by the elements segs[i..]
ResolveFrom(at, segs, i) ==
    IF i > Len(segs) THEN at
    ELSE IF segs[i] = <<>> \/ segs[i] = <<".">> THEN ResolveFrom(at, segs, i + 1)
    ELSE IF segs[i] = DotDot
      THEN ResolveFrom(IF at = <<>> THEN at ELSE SubSeq(at, 1, Len(at) - 1), segs, i + 1)
    ELSE ResolveFrom(Append(at, segs[i]), segs, i + 1)

\* the elements of the base directory
BaseElems == ResolveFrom(<<>>, Split(basePath), 1)

\* where the relative path p leads from the base directory
Target(p) == ResolveFrom(BaseElems, Split(p), 1)

IsPrefixOf(a, b) == Len(a) <= Len(b) /\ SubSeq(b, 1, Len(a)) = a

\* p leads to the base directory or below it
Inside(p) == IsPrefixOf(BaseElems, Target(p))

\* p is absolute or leads outside the base directory
Escapes(p) == IsAbs(p) \/ ~Inside(p)

HasDotDotSegment(p) == \E i \in 1..Len(Split(p)) : Split(p)[i] = DotDot

\* the text after the last separator
LastElem(p) == Split(p)[Len(Split(p))]

AllowedName(name) == name # <<>> /\ \A i \in 1..Len(name) : name[i] \in {"s", "."}

\* the last element of the normalized path is neither exempt nor allowed
BadName(p) ==
    /\ LastElem(Clean(p)) # <<>>
    /\ LastElem(Clean(p)) # <<".">>
    /\ ~AllowedName(LastElem(Clean(p)))

TooLong(p) == Len(Clean(p)) > MaxNameLength

EngineOps ==
    {"List", "UploadFile", "Delete", "Rename", "CreateFolder", "ServeFile",
     "ServeFolderAsZip"}

\* the raw path arguments of the recorded call
PathArgs == IF op = "Rename" THEN args ELSE IF args = <<>> THEN <<>> ELSE <<args[1]>>

MutatingFns == {"ReadDirectory", "WriteFile", "Remove", "Move", "CreateDirectory"}

\* the calls that hand a relative path to the storage
HandsPath(c) ==
    \/ c.fn \in MutatingFns
    \/ c.fn = "GetAbsolutePath" /\ c.args # <<PathEmpty>>

NoStorageOperation == \A i \in 1..Len(calls) : calls[i].fn \notin MutatingFns

IsSan == pc = "done" /\ op = "sanitizePath"

IsEngine == pc = "done" /\ op \in EngineOps

----------------------------------------------------------------------------
(* C1 *)

\* C1: every relative path an Engine operation hands to the storage is
\* non-absolute, has no ".." element, and leads to the base directory or
\* below it.
C1_Confinement ==
    IsEngine =>
      \A i \in 1..Len(calls) :
        HandsPath(calls[i]) =>
          \A j \in 1..Len(calls[i].args) :
            /\ ~IsAbs(calls[i].args[j])
            /\ ~HasDotDotSegment(calls[i].args[j])
            /\ Inside(calls[i].args[j])

----------------------------------------------------------------------------
(* C2 *)

\* C2 as stated: every raw input with a ".." element or an absolute prefix
\* is rejected with PathTraversal, and no operation given one reaches the
\* storage.
C2_AnyDotDotRejected ==
    /\ IsSan /\ (HasDotDotSegment(args[1]) \/ IsAbs(args[1]))
         => ErrorsIs(err, ErrPathTraversal)
    /\ IsEngine /\ (\E i \in 1..Len(PathArgs) :
                      HasDotDotSegment(PathArgs[i]) \/ IsAbs(PathArgs[i]))
         => NoStorageOperation

\* C2 amended: every raw input that is absolute or leads outside the base
\* directory is rejected with PathTraversal, and no operation given one
\* issues a storage operation or resolves it.
C2_EscapeRejected ==
    /\ IsSan /\ Escapes(args[1])
         => ErrorsIs(err, ErrPathTraversal) /\ ret = <<>>
    /\ IsEngine /\ (\E i \in 1..Len(PathArgs) : Escapes(PathArgs[i]))
         => /\ NoStorageOperation
            /\ \A i \in 1..Len(calls) : ~HandsPath(calls[i])
            /\ err # NoError

\* an escape whose ".." elements come after another element
C2_Witness ==
    /\ IsSan
    /\ ~IsAbs(args[1])
    /\ ~HasPrefix(args[1], DotDot)
    /\ HasDotDotSegment(args[1])
    /\ Escapes(args[1])
    /\ ErrorsIs(err, ErrPathTraversal)

----------------------------------------------------------------------------
(* C3 *)

\* the first path argument, in order, that sanitizePath rejects (0: none)
FirstRejected ==
    IF \E i \in 1..Len(PathArgs) : sanitizePath(basePath, PathArgs[i]).err # NoError
      THEN CHOOSE i \in 1..Len(PathArgs) :
             /\ sanitizePath(basePath, PathArgs[i]).err # NoError
             /\ \A j \in 1..(i - 1) : sanitizePath(basePath, PathArgs[j]).err = NoError
      ELSE 0

\* C3: an operation one of whose path arguments sanitizePath rejects
\* returns that very error and issues no storage operation; Rename does so
\* whichever of its two paths is rejected.
C3_SanitizeShortCircuits ==
    IsEngine /\ FirstRejected # 0 =>
      /\ err = sanitizePath(basePath, PathArgs[FirstRejected]).err
      /\ \/ ErrorsIs(err, ErrPathTraversal)
         \/ ErrorsIs(err, ErrPathTooLong)
         \/ ErrorsIs(err, ErrInvalidName)
      /\ NoStorageOperation
      /\ stor = NoStor

\* Rename whose old path passes and whose new path is rejected
C3_Witness ==
    /\ IsEngine
    /\ op = "Rename"
    /\ FirstRejected = 2
    /\ ErrorsIs(err, ErrInvalidName)
    /\ NoStorageOperation

----------------------------------------------------------------------------
(* C4 *)

\* C4: sanitizePath answers PathTraversal exactly when the normalized input
\* is absolute or leads outside the base directory.
C4_TraversalIffEscapes ==
    IsSan =>
      (ErrorsIs(err, ErrPathTraversal) <=> (IsAbs(Clean(args[1])) \/ ~Inside(args[1])))

----------------------------------------------------------------------------
(* C5 *)

\* C5: the checks come in the order absolute-path, confinement, length,
\* name: an escaping input answers PathTraversal whatever else is wrong
\* with it; an input that passes the first two checks and is too long
\* answers PathTooLong whatever its name; the name decides only then.
C5_CheckOrder ==
    IsSan =>
      /\ Escapes(args[1]) => ErrorsIs(err, ErrPathTraversal)
      /\ ~ErrorsIs(err, ErrPathTraversal) /\ TooLong(args[1])
           => ErrorsIs(err, ErrPathTooLong)
      /\ ~ErrorsIs(err, ErrPathTraversal) /\ ~TooLong(args[1]) /\ BadName(args[1])
           => ErrorsIs(err, ErrInvalidName)
      /\ ~ErrorsIs(err, ErrPathTraversal) /\ ~TooLong(args[1]) /\ ~BadName(args[1])
           => err = NoError

\* an over-long path whose name is invalid too answers PathTooLong
C5_Witness ==
    /\ IsSan
    /\ TooLong(args[1])
    /\ BadName(args[1])
    /\ ErrorsIs(err, ErrPathTooLong)
    /\ ~ErrorsIs(err, ErrInvalidName)

----------------------------------------------------------------------------
(* C6 *)

\* C6: an input that passes the absolute-path and confinement checks and
\* has a valid name succeeds when its normalized length is at most
\* MaxNameLength, MaxNameLength itself included, and answers PathTooLong
\* from MaxNameLength + 1 on; the raw length plays no part.
C6_LengthBoundary ==
    IsSan /\ ~ErrorsIs(err, ErrPathTraversal) /\ ~BadName(args[1]) =>
      /\ Len(Clean(args[1])) <= MaxNameLength => err = NoError /\ ret = Clean(args[1])
      /\ Len(Clean(args[1])) >= MaxNameLength + 1 => ErrorsIs(err, ErrPathTooLong)

\* a raw path longer than MaxNameLength whose normalized form has exactly
\* MaxNameLength characters, accepted
C6_Witness ==
    /\ IsSan
    /\ Len(args[1]) > MaxNameLength
    /\ Len(Clean(args[1])) = MaxNameLength
    /\ err = NoError

----------------------------------------------------------------------------
(* C7 *)

\* C7: for an input that passes the absolute-path, confinement and length
\* checks, InvalidName is answered exactly when the last element of the
\* normalized path is neither empty nor "." and has a character outside
\* the pattern; the other elements play no part.
C7_NameOnLastElement ==
    IsSan /\ ~ErrorsIs(err, ErrPathTraversal) /\ ~TooLong(args[1]) =>
      (ErrorsIs(err, ErrInvalidName) <=> BadName(args[1]))

\* a rejected character in an element that is not the last, accepted
C7_Witness ==
    /\ IsSan
    /\ err = NoError
    /\ \E i \in 1..Len(ret) : ret[i] = "<"

----------------------------------------------------------------------------
(* C8 *)

\* C8: sanitizePath("") succeeds and its result leads to the base
\* directory itself; every success returns a non-empty path and every
\* error the empty path.
C8_EmptyIsBase ==
    IsSan =>
      /\ args[1] = <<>> => err = NoError /\ Target(ret) = BaseElems
      /\ err = NoError => ret # <<>>
      /\ err # NoError => ret = <<>>

C8_Witness ==
    /\ IsSan
    /\ args[1] = <<>>
    /\ err = NoError
    /\ ret = <<".">>

----------------------------------------------------------------------------
(* C9 *)

\* the errno or sentinel at the bottom of an os error
Cause(e) == e[Len(e)]

IsSuffixOf(a, b) == Len(a) <= Len(b) /\ SubSeq(b, Len(b) - Len(a) + 1, Len(b)) = a

\* C9: when ReadDirectory fails, List returns a nil list, and FileNotFound
\* for a not-exist error, PermissionDenied for a permission error, and
\* otherwise an error that wraps the storage's error.
C9_ListClassifies ==
    IsEngine /\ op = "List" /\ stor # NoStor /\ stor.ret.err # NoError =>
      /\ files = NilFiles
      /\ err # NoError
      /\ Cause(stor.ret.err) \in {"ErrNotExist", "ENOENT"}
           => ErrorsIs(err, ErrFileNotFound)
      /\ Cause(stor.ret.err) \in {"ErrPermission", "EACCES"}
           => ErrorsIs(err, ErrPermissionDenied)
      /\ Cause(stor.ret.err) \notin {"ErrNotExist", "ENOENT", "ErrPermission", "EACCES"}
           => /\ IsSuffixOf(stor.ret.err, err)
              /\ ~ErrorsIs(err, ErrFileNotFound)
              /\ ~ErrorsIs(err, ErrPermissionDenied)

\* a permission error inside a *PathError, classified
C9_Witness ==
    /\ IsEngine
    /\ op = "List"
    /\ stor # NoStor
    /\ stor.ret.err = <<"PathError", "EACCES">>
    /\ ErrorsIs(err, ErrPermissionDenied)
    /\ files.isNil

----------------------------------------------------------------------------
(* C10 *)

\* C10: on success List returns one FileData per entry the storage
\* returned, with its name and directory flag, in the storage's order.
C10_ListMapsEntries ==
    IsEngine /\ op = "List" /\ err = NoError =>
      /\ ~files.isNil
      /\ Len(files.items) = Len(stor.ret.entries)
      /\ \A i \in 1..Len(stor.ret.entries) :
           /\ files.items[i].Name = stor.ret.entries[i].name
           /\ files.items[i].IsDir = stor.ret.entries[i].isDir

\* two different entries, the directory first
C10_Witness ==
    /\ IsEngine
    /\ op = "List"
    /\ err = NoError
    /\ Len(files.items) = 2
    /\ files.items[1].IsDir
    /\ ~files.items[2].IsDir
    /\ files.items[1].Name # files.items[2].Name

----------------------------------------------------------------------------
(* C11 *)

IsFs(name) == pc = "done" /\ op = name

\* the path argument i of the recorded call passes sanitizePath
Sanitizable(i) == sanitizePath(basePath, args[i]).err = NoError

\* C11: Delete of a sanitizable path that does not exist returns success
\* and leaves the storage as it was; after a successful Delete the path
\* does not exist, so a second Delete succeeds and changes nothing.
C11_DeleteIdempotent ==
    IsFs("Delete") /\ Sanitizable(1) =>
      /\ Target(args[1]) \notin DOMAIN pre => err = NoError /\ fs = pre
      /\ err = NoError => Target(args[1]) \notin DOMAIN fs

----------------------------------------------------------------------------
(* C12 *)

\* C12: Rename(oldPath, "") is stopped by the guard of Move: the error
\* wraps the invalid-argument error and no rename is attempted on the
\* file system.
C12_EmptyDestinationRejected ==
    IsFs("Rename") /\ args[2] = <<>> /\ Sanitizable(1) =>
      /\ ErrorsIs(err, <<"ErrInvalid">>)
      /\ \A i \in 1..Len(sys) : sys[i].ev # "Rename"

----------------------------------------------------------------------------
(* C13 *)

\* the base directory, empty
EmptyBase == MakeDirs(RootFs, BaseElems)

\* the base holding only the empty directory d
OnlyDir(d) == Put(EmptyBase, Append(BaseElems, d), DirNode)

\* the base holding only the directory d with the one file f of content b
OnlyFile(d, f, b) == Put(OnlyDir(d), BaseElems \o <<d, f>>, FileNode(b))

Slash(d, f) == d \o <<Separator>> \o f

\* C13: for paths that pass sanitizePath, uploads whose writing does not
\* fail and listings in which no metadata lookup fails: from an empty base,
\* CreateFolder(d) leaves only the empty directory d; UploadFile(d/f, b) then leaves d holding only the file f;
\* List(d) then returns exactly {f, not a directory}; Rename(d/f, d/g)
\* then leaves d holding only g, so List(d) returns exactly g; Delete(d)
\* then leaves the base empty, where List(d) fails with FileNotFound.
C13_EndToEnd ==
    \A d \in EntryNames, f \in EntryNames, g \in EntryNames, b \in Streams :
      /\ IsFs("CreateFolder") /\ args = <<d>> /\ FirstRejected = 0 /\ pre = EmptyBase
           => err = NoError /\ fs = OnlyDir(d)
      /\ IsFs("UploadFile") /\ args = <<Slash(d, f), b, NoWriteFault>> /\ FirstRejected = 0
           /\ pre = OnlyDir(d)
           => err = NoError /\ fs = OnlyFile(d, f, b)
      /\ IsFs("List") /\ args = <<d>> /\ FirstRejected = 0 /\ pre = OnlyFile(d, f, b)
           /\ (\A i \in 1..Len(sys) : sys[i].ev # "Warnf")
           => /\ err = NoError
              /\ files = [isNil |-> FALSE, items |-> <<[Name |-> f, IsDir |-> FALSE]>>]
              /\ fs = pre
      /\ IsFs("Rename") /\ args = <<Slash(d, f), Slash(d, g)>> /\ FirstRejected = 0
           /\ pre = OnlyFile(d, f, b)
           => err = NoError /\ fs = OnlyFile(d, g, b)
      /\ IsFs("Delete") /\ args = <<d>> /\ FirstRejected = 0 /\ pre = OnlyFile(d, g, b)
           => err = NoError /\ fs = EmptyBase
      /\ IsFs("List") /\ args = <<d>> /\ FirstRejected = 0 /\ pre = EmptyBase
           => ErrorsIs(err, ErrFileNotFound) /\ files = NilFiles /\ fs = pre

\* the folder holding only the renamed file has just been deleted
C13_Witness ==
    /\ IsFs("Delete")
    /\ args = << <<"s">> >>
    /\ pre = OnlyFile(<<"s">>, <<".", "s">>, <<1>>)
    /\ fs = EmptyBase
    /\ err = NoError

----------------------------------------------------------------------------
(* C14 *)

\* C14: a successful UploadFile(p, b) leaves p a regular file holding
\* exactly b, whatever p held before; ServeFile(p), for p a regular file,
\* succeeds, streams exactly the content of p and changes nothing.
C14_RoundTrip ==
    /\ IsFs("UploadFile") /\ err = NoError
         => /\ Target(args[1]) \in DOMAIN fs
            /\ fs[Target(args[1])] = FileNode(args[2])
    /\ IsFs("ServeFile") /\ Sanitizable(1) /\ Target(args[1]) \in DOMAIN pre
         => /\ fs = pre
            /\ ~pre[Target(args[1])].isDir
                 => /\ err = NoError
                    /\ sink = [kind |-> "file", body |-> pre[Target(args[1])].data]

\* an upload of the empty stream over a file that held a byte
C14_Witness ==
    /\ IsFs("UploadFile")
    /\ err = NoError
    /\ args[2] = <<>>
    /\ Target(args[1]) \in DOMAIN pre
    /\ pre[Target(args[1])] = FileNode(<<1>>)
    /\ fs[Target(args[1])] = FileNode(<<>>)

----------------------------------------------------------------------------
(* C15 *)

\* the regular files below the folder t none of whose names below t, their
\* own included, starts with "."
VisibleFiles(f, t) ==
    {m \in DOMAIN f :
       /\ HasPrefix(m, t)
       /\ m # t
       /\ ~f[m].isDir
       /\ \A i \in (Len(t) + 1)..Len(m) : m[i][1] # "."}

\* C15: the entries of the archive ServeFolderAsZip produces are exactly
\* the regular files below the served folder with no name starting with
\* "." on the way down from it, each once, under its path relative to the
\* served folder and with its content; directories give no entry.
C15_ArchiveExclusion ==
    IsFs("ServeFolderAsZip") /\ err = NoError =>
      /\ Len(archive) = Cardinality({archive[i] : i \in 1..Len(archive)})
      /\ {archive[i] : i \in 1..Len(archive)}
           = {[name |-> JoinSegs(SubSeq(m, Len(Target(args[1])) + 1, Len(m))),
               data |-> pre[m].data] : m \in VisibleFiles(pre, Target(args[1]))}

----------------------------------------------------------------------------
(* C16 *)

IsNotExistCause(e) == e # NoError /\ Cause(e) \in {"ErrNotExist", "ENOENT"}

\* C16: when the stat of the target reports that it does not exist, or
\* reports something that is not a directory, ServeFolderAsZip returns
\* FileNotFound and has set no header, written nothing and made no archive
\* writer.
C16_ZipNeedsDirectory ==
    /\ IsEngine
    /\ op = "ServeFolderAsZip"
    /\ stor # NoStor
    /\ stor.kind = "Stat"
    /\ \/ IsNotExistCause(stor.ret.err)
       \/ stor.ret.err = NoError /\ ~stor.ret.isDir
    => /\ ErrorsIs(err, ErrFileNotFound)
       /\ resp = NoResp

\* the target is a regular file
C16_Witness ==
    /\ IsEngine
    /\ op = "ServeFolderAsZip"
    /\ stor # NoStor
    /\ stor.kind = "Stat"
    /\ stor.ret.err = NoError
    /\ ~stor.ret.isDir
    /\ ErrorsIs(err, ErrFileNotFound)
    /\ resp.zip = "none"

----------------------------------------------------------------------------
(* C17 *)

\* C17: ServeFile returns FileNotFound exactly when the stat reports
\* not-exist; any other stat error comes back wrapped, is not FileNotFound
\* and keeps its cause; in both cases no header is set and nothing is
\* streamed.
C17_ServeFileStat ==
    IsEngine /\ op = "ServeFile" =>
      /\ ErrorsIs(err, ErrFileNotFound)
           <=> stor # NoStor /\ IsNotExistCause(stor.ret.err)
      /\ stor # NoStor /\ stor.ret.err # NoError
           => /\ resp = NoResp
              /\ err # NoError
              /\ ~IsNotExistCause(stor.ret.err)
                   => IsSuffixOf(stor.ret.err, err) /\ Len(err) > Len(stor.ret.err)

\* a permission error of the stat comes back wrapped
C17_Witness ==
    /\ IsEngine
    /\ op = "ServeFile"
    /\ stor # NoStor
    /\ stor.ret.err = <<"PathError", "EACCES">>
    /\ err = <<"failed to stat file", "PathError", "EACCES">>
    /\ resp = NoResp

----------------------------------------------------------------------------
(* C18 *)

\* C18: handleError answers 400 for an error whose chain ends in
\* PathTraversal, InvalidName or PathTooLong, 404 for FileNotFound, 403 for
\* PermissionDenied or UnsupportedOperation and 500 for any other,
\* whatever the number of wrappers.
C18_ErrorMapping ==
    pc = "done" /\ op = "handleError" =>
      status.code =
        (IF Cause(args[1]) \in {"ErrPathTraversal", "ErrInvalidName", "ErrPathTooLong"}
           THEN 400
         ELSE IF Cause(args[1]) = "ErrFileNotFound" THEN 404
         ELSE IF Cause(args[1]) \in {"ErrPermissionDenied", "ErrUnsupportedOperation"}
           THEN 403
         ELSE 500)

\* FileNotFound under two wrappers
C18_Witness ==
    /\ pc = "done"
    /\ op = "handleError"
    /\ Len(args[1]) = 3
    /\ Cause(args[1]) = "ErrFileNotFound"
    /\ status.code = 404

----------------------------------------------------------------------------
(* C19 *)

\* C19: when the storage call of UploadFile, Delete, Rename or CreateFolder
\* fails with a not-exist error the operation returns FileNotFound, and
\* when it fails with a permission error it returns PermissionDenied.
C19_StorageErrorsReclassified ==
    /\ IsEngine
    /\ op \in {"UploadFile", "Delete", "Rename", "CreateFolder"}
    /\ stor # NoStor
    /\ stor.ret # NoError
    => /\ Cause(stor.ret) \in {"ErrNotExist", "ENOENT"}
            => ErrorsIs(err, ErrFileNotFound)
       /\ Cause(stor.ret) \in {"ErrPermission", "EACCES"}
            => ErrorsIs(err, ErrPermissionDenied)

----------------------------------------------------------------------------
(* C20 *)

Count(name) == Cardinality({i \in 1..Len(sys) : sys[i].ev = name})

\* the walk of the folder at raw path p under the failure ft, where
\* ServeFolderAsZip reaches it
WalkOf(p, ft) ==
    createZipArchive(fs, Elems(GetAbsolutePath(basePath, sanitizePath(basePath, p).path)), ft)

ReachesWalk(p) ==
    /\ sanitizePath(basePath, p).err = NoError
    /\ Stat(fs, GetAbsolutePath(basePath, sanitizePath(basePath, p).path)).err = NoError
    /\ Stat(fs, GetAbsolutePath(basePath, sanitizePath(basePath, p).path)).isDir

\* C20: once ServeFolderAsZip has made the archive writer, however the
\* call ends, the writer is closed exactly once and after every source
\* file; each source file opened is closed before anything else is
\* opened, so none stays open; and a close that fails is only logged: the
\* error returned and the archive are what they are when it succeeds.
C20_ScopedRelease ==
    /\ IsFs("ServeFolderAsZip") /\ Count("NewWriter") > 0 =>
         /\ Count("NewWriter") = 1
         /\ Count("ZipClose") = 1
         /\ Count("Open") = Count("Close")
         /\ \A i \in 1..Len(sys) :
              /\ sys[i].ev = "Open"
                   => i < Len(sys) /\ sys[i + 1] = Ev("Close", sys[i].at)
              /\ sys[i].ev \in {"Open", "Close"}
                   => \E j \in (i + 1)..Len(sys) : sys[j].ev = "ZipClose"
    /\ pc = "idle" =>
         \A p \in FsPaths :
           ReachesWalk(p) =>
             \A ft \in FaultsAt(sanitizePath(basePath, p),
                                Stat(fs, GetAbsolutePath(basePath, sanitizePath(basePath, p).path)),
                                fs,
                                GetAbsolutePath(basePath, sanitizePath(basePath, p).path)) :
               /\ WalkOf(p, ft).err = WalkOf(p, [ft EXCEPT !.closeFails = ~@]).err
               /\ WalkOf(p, ft).archive = WalkOf(p, [ft EXCEPT !.closeFails = ~@]).archive

\* the copy of the second file fails and both closes fail: two files were
\* opened and closed, the writer was closed, the failures were logged
C20_Witness ==
    /\ IsFs("ServeFolderAsZip")
    /\ ErrorsIs(err, <<"EIO">>)
    /\ Count("Open") = 2
    /\ Count("Close") = 2
    /\ Count("Warnf") = 2
    /\ Count("ZipClose") = 1
    /\ sys[Len(sys)].ev = "Errorf"

----------------------------------------------------------------------------
(* C21 *)

NoFault == [kind |-> "none", at |-> 0, closeFails |-> FALSE]

\* the nodes of the source files opened, in the order of their opening
Opened == SelectSeq(sys, LAMBDA e : e.ev = "Open")

\* the archive entry name of the node n below the served folder of raw path p
EntryName(p, n) ==
    Rel(GetAbsolutePath(basePath, sanitizePath(basePath, p).path), NodePath(n)).path

\* C21: when the walk of ServeFolderAsZip fails (walk error, entry
\* creation, open or copy), the call returns an error that wraps what the
\* walk returned; the archive holds, whole and in order, the entries the
\* unfailing walk writes before the failing file, followed by at most the
\* entry begun for the failing file; and no file after the failing one is
\* opened: the files opened are the first files of the archive, in order.
C21_ArchiveAbort ==
    IsFs("ServeFolderAsZip") /\ Count("NewWriter") > 0 /\ err # NoError =>
      /\ stor.kind = "Walk" /\ stor.ret # NoError
      /\ err = Errorf("failed to create zip for folder", stor.ret)
      /\ ErrorsIs(err, <<Cause(stor.ret)>>)
      /\ Len(archive) <= Len(WalkOf(args[1], NoFault).archive)
      /\ \A i \in 1..Len(archive) :
           /\ archive[i].name = WalkOf(args[1], NoFault).archive[i].name
           /\ i < Len(archive) => archive[i] = WalkOf(args[1], NoFault).archive[i]
      /\ Len(Opened) \in {Len(archive) - 1, Len(archive)}
      /\ \A i \in 1..Len(Opened) : EntryName(args[1], Opened[i].at) = archive[i].name

\* the folder holds two files with content; the copy of the first fails:
\* its entry is begun and stays in the archive, the second file is neither
\* opened nor added
C21_Witness ==
    /\ IsFs("ServeFolderAsZip")
    /\ ErrorsIs(err, <<"failed to copy file to zip">>)
    /\ Len(WalkOf(args[1], NoFault).archive) = 2
    /\ WalkOf(args[1], NoFault).archive[2].data = <<1>>
    /\ Len(archive) = 1
    /\ Len(Opened) = 1

----------------------------------------------------------------------------
(* C22 *)

IsH(name) == pc = "done" /\ op = name

\* the last name of the path p, trailing separators aside
BaseName(p) ==
    IF Elems(p) # <<>> THEN Elems(p)[Len(Elems(p))]
    ELSE IF p = <<>> THEN <<".">> ELSE <<Separator>>

\* where the last dot of the name n is, 0 when it has none
LastDot(n) ==
    IF \E i \in 1..Len(n) : n[i] = "."
      THEN CHOOSE i \in 1..Len(n) : n[i] = "." /\ \A j \in (i + 1)..Len(n) : n[j] # "."
      ELSE 0

\* the extension of the name n, lower-cased
LowerExt(n) ==
    IF LastDot(n) = 0 THEN <<>>
    ELSE [i \in 1..(Len(n) - LastDot(n) + 1) |->
            IF n[LastDot(n) + i - 1] = "S" THEN "s" ELSE n[LastDot(n) + i - 1]]

\* the name n is forbidden by a configured entry
ForbiddenName(n) ==
    \E k \in 1..Len(forbiddenExt) :
      \/ LowerExt(n) = forbiddenExt[k]
      \/ IsPrefixOf(forbiddenExt[k], n)

\* the upload form of the request a reaches the test of the file name
FormParsed(a) ==
    /\ a.method = "POST"
    /\ Len(a.data) + a.extra <= maxUploadSize
    /\ a.declared \in {-1, Len(a.data) + a.extra}

EngineNotInvoked ==
    sys = <<>> /\ calls = <<>> /\ fs = pre /\ sink = NoSink /\ archive = <<>>

\* C22: an Upload whose form parses is refused as forbidden exactly when
\* the lower-cased extension of its file name equals a configured entry or
\* the name starts with one, and a Download or DownloadFolder exactly when
\* that holds of the basename of the requested path; the refusal is the
\* 403 response and the Engine is not invoked.
C22_ForbiddenGate ==
    /\ IsH("h.Upload") /\ FormParsed(args) =>
         IF ForbiddenName(args.filename)
           THEN /\ status = [code |-> StatusForbidden, message |-> "ForbiddenFile"]
                /\ err = ErrUnsupportedOperation
                /\ EngineNotInvoked
           ELSE sys # <<>> /\ sys[1].ev = "uc.UploadFile"
    /\ IsH("h.Download") \/ IsH("h.DownloadFolder") =>
         IF ForbiddenName(BaseName(args.path))
           THEN /\ status = [code |-> StatusForbidden, message |-> "ForbiddenFile"]
                /\ EngineNotInvoked
           ELSE /\ sys # <<>>
                /\ sys[1].ev = IF op = "h.Download" THEN "uc.ServeFile"
                               ELSE "uc.ServeFolderAsZip"

\* the file s/.s is stored and is asked for as s//.s: 403, the Engine is
\* not invoked
C22_Witness ==
    /\ IsH("h.Download")
    /\ args.path = <<"s", "/", "/", ".", "s">>
    /\ << <<"s">>, <<"s">>, <<".", "s">> >> \in DOMAIN fs
    /\ status.code = StatusForbidden
    /\ sys = <<>>

----------------------------------------------------------------------------
(* C23 *)

\* C23: every POST Upload whose file is larger than maxUploadSize is
\* answered 403 with an error that is UnsupportedOperation, and the Engine
\* is not invoked, whether the Content-Length is declared, absent (chunked)
\* or inaccurate.
C23_OversizedRejected ==
    IsH("h.Upload") /\ args.method = "POST" /\ Len(args.data) > maxUploadSize =>
      /\ status.code = StatusForbidden
      /\ ErrorsIs(err, ErrUnsupportedOperation)
      /\ EngineNotInvoked

----------------------------------------------------------------------------
(* C24 *)

\* the names of the entries whose metadata lookup failed, as logged
Lost == {sys[i].at[1] : i \in {j \in 1..Len(sys) : sys[j].ev = "Warnf"}}

\* what the directory of raw path p holds in the tree f, by increasing name
Holds(f, p) ==
    [i \in 1..Len(SortNames(ChildNames(f, Target(p)))) |->
       [Name |-> SortNames(ChildNames(f, Target(p)))[i],
        IsDir |-> f[Append(Target(p), SortNames(ChildNames(f, Target(p)))[i])].isDir]]

\* C24: a List of an existing directory succeeds whichever entries fail
\* their metadata lookup; it returns the entries of the directory without
\* exactly those, name and kind unchanged and in the order of the whole
\* listing, and changes nothing.
C24_ListingResilience ==
    IsFs("List") /\ Sanitizable(1) /\ Target(args[1]) \in DOMAIN pre
      /\ pre[Target(args[1])].isDir =>
        /\ err = NoError
        /\ fs = pre
        /\ files = [isNil |-> FALSE,
                    items |-> SelectSeq(Holds(pre, args[1]),
                                        LAMBDA e : e.Name \notin Lost)]

\* the base holds three entries and the lookup of the middle one fails: the
\* first and the last are listed, in that order
C24_Witness ==
    /\ IsFs("List")
    /\ args = <<PathEmpty>>
    /\ Len(Holds(pre, PathEmpty)) = 3
    /\ Lost = {Holds(pre, PathEmpty)[2].Name}
    /\ err = NoError
    /\ Len(files.items) = 2
    /\ files.items[1] = Holds(pre, PathEmpty)[1]
    /\ files.items[2] = Holds(pre, PathEmpty)[3]

----------------------------------------------------------------------------
(* C25 *)

RECURSIVE Lexical(_, _, _, _)
\* the elements left of segs[i..] after out, read as text: empty elements
\* and "." go, ".." takes the element before it away when there is one that
\* is not "..", goes at the root, and stays otherwise
Lexical(out, segs, i, rooted) ==
    IF i > Len(segs) THEN out
    ELSE IF segs[i] = <<>> \/ segs[i] = <<".">> THEN Lexical(out, segs, i + 1, rooted)
    ELSE IF segs[i] # DotDot THEN Lexical(Append(out, segs[i]), segs, i + 1, rooted)
    ELSE IF out # <<>> /\ out[Len(out)] # DotDot
      THEN Lexical(SubSeq(out, 1, Len(out) - 1), segs, i + 1, rooted)
    ELSE IF rooted THEN Lexical(out, segs, i + 1, rooted)
    ELSE Lexical(Append(out, DotDot), segs, i + 1, rooted)

\* the lexical normal form of the path p
Norm(p) ==
    IF IsAbs(p) THEN <<Separator>> \o JoinSegs(Lexical(<<>>, Split(p), 1, TRUE))
    ELSE IF Lexical(<<>>, Split(p), 1, FALSE) = <<>> THEN <<".">>
    ELSE JoinSegs(Lexical(<<>>, Split(p), 1, FALSE))

\* the calls of storage operations among the recorded calls, in order
Operations == SelectSeq(calls, LAMBDA c : c.fn \in MutatingFns)

Mutations == {"UploadFile", "Delete", "Rename", "CreateFolder"}

\* the calls the recorded operation makes when its raw paths are qs and the
\* storage answers as it did
CallsFor(qs) ==
    CASE op = "UploadFile" -> UploadFile(basePath, qs[1], args[2], stor.ret).calls
      [] op = "Delete" -> Delete(basePath, qs[1], stor.ret).calls
      [] op = "Rename" -> Rename(basePath, qs[1], qs[2], stor.ret).calls
      [] op = "CreateFolder" -> CreateFolder(basePath, qs[1], stor.ret).calls

\* C25: a successful UploadFile, Delete, Rename or CreateFolder makes
\* exactly one call of a storage operation (GetAbsolutePath, which
\* sanitizePath asks for the base, aside): WriteFile(norm(p), data),
\* Remove(norm(p)), Move(norm(a), norm(b)), CreateDirectory(norm(p)); and
\* replacing a raw path by a short one of the same normal form leaves the
\* calls the same.
C25_OneStorageCall ==
    pc = "done" /\ op \in Mutations /\ err = NoError =>
      /\ Operations =
           << CASE op = "UploadFile" ->
                     [fn |-> "WriteFile", args |-> <<Norm(args[1])>>, data |-> args[2]]
                [] op = "Delete" ->
                     [fn |-> "Remove", args |-> <<Norm(args[1])>>, data |-> <<>>]
                [] op = "Rename" ->
                     [fn |-> "Move", args |-> <<Norm(args[1]), Norm(args[2])>>,
                      data |-> <<>>]
                [] op = "CreateFolder" ->
                     [fn |-> "CreateDirectory", args |-> <<Norm(args[1])>>,
                      data |-> <<>>] >>
      /\ \A q \in RenamePaths :
           /\ Norm(q) = Norm(args[1]) => CallsFor(<<q>> \o Tail(args)) = calls
           /\ op = "Rename" /\ Norm(q) = Norm(args[2]) => CallsFor(<<args[1], q>>) = calls

\* Rename("./s", "s/") succeeded: one Move("s", "s")
C25_Witness ==
    /\ pc = "done"
    /\ op = "Rename"
    /\ err = NoError
    /\ args = << <<".", "/">>, <<"s", "/">> >>
    /\ Operations = <<[fn |-> "Move", args |-> << <<".">>, <<"s">> >>, data |-> <<>>]>>

----------------------------------------------------------------------------
(* C26 *)

\* C26: whatever operations the Engine has performed, with whatever raw
\* paths, the base directory exists and is a directory; a Delete or a
\* Rename changes nothing but strict descendants of the base.
C26_BaseNeverRemoved ==
    /\ BaseElems \in DOMAIN fs
    /\ fs[BaseElems].isDir
    /\ IsFs("Delete") \/ IsFs("Rename") =>
         \A n \in DOMAIN pre \cup DOMAIN fs :
           ~(IsPrefixOf(BaseElems, n) /\ n # BaseElems) =>
             n \in DOMAIN pre /\ n \in DOMAIN fs /\ fs[n] = pre[n]

----------------------------------------------------------------------------
(* C27 *)

\* C27: a Download whose requested path, once normalized as the Engine
\* normalizes it, has a forbidden basename is answered 403 without calling
\* ServeFile; so no file with a forbidden name is ever streamed, however
\* the path is spelled.
C27_GateAgreesWithEngine ==
    IsH("h.Download") =>
      /\ ForbiddenName(BaseName(Norm(args.path))) =>
           status.code = StatusForbidden /\ EngineNotInvoked
      /\ sink.kind = "file" => ~ForbiddenName(BaseName(resp.served))

----------------------------------------------------------------------------
(* C28 *)

\* C28: an UploadFile that returns an error, whether the path is rejected,
\* a directory or the file cannot be created, or the copy stops part-way,
\* leaves the directory tree and the content of every file, the one at the
\* target path included, as they were before the call.
C28_FailedUploadNoChange ==
    IsFs("UploadFile") /\ err # NoError => fs = pre

----------------------------------------------------------------------------
(* C29 *)

\* C29: with no writer at work, a ServeFile running beside a Delete or a
\* Rename of the same path ends either with FileNotFound or with success
\* and the sink holding the whole file; it does not return success when the
\* file was gone by the time the streaming began.
C29_ServeFileAtomic ==
    conc.serve.pc = "done" /\ conc.w1.pc = "idle" /\ conc.w2.pc = "idle" =>
      \/ ErrorsIs(conc.serve.err, ErrFileNotFound)
      \/ /\ conc.serve.err = NoError
         /\ conc.serve.sink = [kind |-> "file", body |-> StoredData]

----------------------------------------------------------------------------
(* C30 *)

\* C30: when two UploadFile calls for the same path with different streams
\* have both returned, with no Delete or Rename beside them, both returned
\* nil and the file holds the whole stream of one of them.
C30_ConcurrentWriters ==
    conc.w1.pc = "done" /\ conc.w2.pc = "done" /\ conc.other.pc = "idle" =>
      /\ conc.w1.err = NoError
      /\ conc.w2.err = NoError
      /\ conc.link # 0
      /\ conc.ino[conc.link] \in {DataOf("w1"), DataOf("w2")}

====
